---- MODULE Spec2Model ----
(***************************************************************************)
(* Model of the morphotactics compiler (morphotactics/morphotactics.py),   *)
(* of Slot construction (morphotactics/slot.py) and of the part of the     *)
(* OpenFst substrate the compiler relies on.                                *)
(*                                                                         *)
(* Labels are integers, 0 is epsilon; the lower (input) alphabet is        *)
(* 98 'b', 100 'd', 102 'f' and the upper (output) alphabet is 97 'a',     *)
(* 99 'c', 101 'e'.  Weights are naturals in the tropical semiring: the    *)
(* product is +, the sum is min, and the semiring zero (+infinity) is      *)
(* represented by the absence of a vertex from the domain of "final".      *)
(***************************************************************************)
EXTENDS Integers, Sequences, FiniteSets, TLC

VARIABLES
  decl,           \* the caller's slot declarations, in program order
  slots,          \* the Slot objects constructed so far: index -> object
  pc,             \* position of the caller / of compile
  err,            \* message of the exception raised, "" when none
  ncalls,         \* number of compile calls started
  cset,           \* the slot objects passed to the running compile call
  slot_map,       \* compile: slot name -> slot object index
  starting_slots, \* compile: keys of starting_slots, in dict order
  fst,            \* compile: the master automaton
  start_states,   \* compile: vertex name -> entry vertex
  pass,           \* which DFS pass is running (1 or 2)
  visited,        \* _dfs: set of visited vertices
  stack,          \* _dfs: the recursion stack, top frame last
  iter_order,     \* iteration order of each set of names built so far
  results         \* what each finished compile call gave its caller

vars == <<decl, slots, pc, err, ncalls, cset, slot_map, starting_slots, fst,
          start_states, pass, visited, stack, iter_order, results>>

-----------------------------------------------------------------------------
(* Bounds *)

\* compile calls made by the caller on the objects it constructed
MaxCalls == 2

\* longest input string and longest output string of the compared analyses
MaxLen == 3

\* largest path weight of the compared analyses
MaxWeight == 12

\* the longest regular expression of the exhaustive StemGuesser inputs
MaxRegex == 3

-----------------------------------------------------------------------------
(* Generic helpers *)

Epsilon == 0

None == "None"

Min(a, b) == IF a <= b THEN a ELSE b

Range(s) == {s[i] : i \in DOMAIN s}

\* all the orders in which the elements of a finite set can be enumerated
Perms(S) ==
  {p \in [1..Cardinality(S) -> S] : \A i, j \in 1..Cardinality(S) : p[i] = p[j] => i = j}

RECURSIVE SumSeq(_)
SumSeq(s) == IF s = <<>> THEN 0 ELSE Head(s) + SumSeq(Tail(s))

RECURSIVE Flatten(_)
Flatten(ss) == IF ss = <<>> THEN <<>> ELSE Head(ss) \o Flatten(Tail(ss))


Max(a, b) == IF a >= b THEN a ELSE b

-----------------------------------------------------------------------------
(* The automaton substrate (pynini.Fst / pywrapfst) as the compiler uses it. *)
(* A vertex is an integer 0 .. num_states-1; start is -1 while unset; an arc *)
(* is kept with its source vertex, in the order of the add_arc calls.        *)

\* pynini.Fst()
EmptyFst == [num_states |-> 0, start |-> -1, final |-> <<>>, arcs |-> <<>>]

\* pynini.Arc(ilabel, olabel, weight, nextstate), leaving vertex src
Arc(src, ilabel, olabel, weight, nextstate) ==
  [src |-> src, ilabel |-> ilabel, olabel |-> olabel, weight |-> weight,
   nextstate |-> nextstate]

ValidStateId(f, s) == s \in 0..(f.num_states - 1)

\* fst.add_state(): the vertex allocated is f.num_states
add_state(f) == [f EXCEPT !.num_states = @ + 1]

add_states(f, n) == [f EXCEPT !.num_states = @ + n]

set_start(f, s) == [f EXCEPT !.start = s]

\* fst.set_final(s, w): the final weight of s becomes w
set_final(f, s, w) ==
  [f EXCEPT !.final = [q \in (DOMAIN @) \cup {s} |-> IF q = s THEN w ELSE @[q]]]

\* fst.add_arc(s, arc): appended to the arcs leaving s
add_arc(f, arc) == [f EXCEPT !.arcs = Append(@, arc)]

\* a rule compiled with its sides crossed the other way: pynini.cross(upper, lower)
RuleFst_crossed(upper, lower, rule_weight) ==
  LET m == Max(Len(lower), Len(upper))
      lab(s, k) == IF k <= Len(s) THEN s[k] ELSE Epsilon
  IN [num_states |-> m + 2,
      start |-> 0,
      final |-> ((m + 1) :> 0),
      arcs |-> <<Arc(0, Epsilon, Epsilon, rule_weight, 1)>> \o
               [k \in 1..m |-> Arc(k, lab(upper, k), lab(lower, k), 0, k + 1)]]

\* a rule compiler for which the rule with two empty sides is one vertex
RuleFst_bare(upper, lower, rule_weight) ==
  LET m == Max(Len(lower), Len(upper))
      lab(s, k) == IF k <= Len(s) THEN s[k] ELSE Epsilon
  IN IF m = 0
     THEN [num_states |-> 1, start |-> 0, final |-> (0 :> rule_weight), arcs |-> <<>>]
     ELSE [num_states |-> m + 2,
           start |-> 0,
           final |-> ((m + 1) :> 0),
           arcs |-> <<Arc(0, Epsilon, Epsilon, rule_weight, 1)>> \o
                    [k \in 1..m |-> Arc(k, lab(lower, k), lab(upper, k), 0, k + 1)]]

\* pynutil.add_weight(pynini.cross(lower, upper), rule_weight): vertex 0
\* carries the weight on an epsilon arc to the chain that reads lower and
\* writes upper; the last vertex is the only final one.
RuleFst(upper, lower, rule_weight) ==
  LET m == Max(Len(lower), Len(upper))
      lab(s, k) == IF k <= Len(s) THEN s[k] ELSE Epsilon
  IN [num_states |-> m + 2,
      start |-> 0,
      final |-> ((m + 1) :> 0),
      arcs |-> <<Arc(0, Epsilon, Epsilon, rule_weight, 1)>> \o
               [k \in 1..m |-> Arc(k, lab(lower, k), lab(upper, k), 0, k + 1)]]

-----------------------------------------------------------------------------
(* Slot objects *)

\* a rule is the tuple (upper, lower, continuation classes, rule weight)
Upper(rule) == rule[1]
Lower(rule) == rule[2]
ContClasses(rule) == rule[3]
RuleWeight(rule) == rule[4]

\* the message of the exception Slot.__init__ raises (the literal continues
\* over a line break, indentation included)
NoContinuationClass ==
  "Need to specify at least one continuation class.            Use None to indicate if StemGuesser is terminal"

\* a constructor that looks at the first rule only
SlotInitRaises_first(rules) ==
  Len(rules) > 0 /\ Len(ContClasses(rules[1])) = 0

\* Slot.__init__ refuses when some rule has no continuation class
SlotInitRaises(rules) == \E k \in DOMAIN rules : Len(ContClasses(rules[k])) = 0

\* the object Slot.__init__ leaves behind
SlotObject(name, rules, start) ==
  [kind |-> "Slot", name |-> name, fst |-> None, rules |-> rules,
   start |-> start, final_states |-> <<>>]

\* StemGuesser.__init__ after the regex scan: the continuation list becomes
\* the single rule ('', '', cont_classes, 0.0) handed to Slot.__init__, then
\* the acceptor is stored
StemGuesserRules(cont_classes) == << <<<<>>, <<>>, cont_classes, 0>> >>

StemGuesserObject(name, cont_classes, start, fsa) ==
  [SlotObject(name, StemGuesserRules(cont_classes), start)
     EXCEPT !.kind = "StemGuesser", !.fst = fsa]

DeclRules(d) ==
  IF d.kind = "StemGuesser" THEN StemGuesserRules(d.cont_classes) ELSE d.rules

DeclObject(d) ==
  IF d.kind = "StemGuesser"
  THEN StemGuesserObject(d.name, d.cont_classes, d.start, d.fsa)
  ELSE SlotObject(d.name, d.rules, d.start)

\* a StemGuesser declared by its regular expression
FromRegex(d) == d.kind = "StemGuesser" /\ "regex" \in DOMAIN d

-----------------------------------------------------------------------------
(* compile: pass 1 *)

\* the copy loop: vertex 0 of the copied automaton is the slot's entry vertex,
\* vertex q > 0 is old_num_states + q - 1
NewState_shifted(q, slot_start_state, old_num_states) ==
  IF q = 0 THEN slot_start_state ELSE old_num_states + q

NewState(q, slot_start_state, old_num_states) ==
  IF q = 0 THEN slot_start_state ELSE old_num_states + q - 1

CopyArcs(f, g, slot_start_state, old_num_states) ==
  [f EXCEPT !.arcs = @ \o
     [k \in 1..Len(g.arcs) |->
        Arc(NewState(g.arcs[k].src, slot_start_state, old_num_states),
            g.arcs[k].ilabel, g.arcs[k].olabel, g.arcs[k].weight,
            NewState(g.arcs[k].nextstate, slot_start_state, old_num_states))]]

\* the vertex recorded for a rule once its chain is copied
RuleFinalState(f) == f.num_states - 1

\* regular Slot: each rule in order is compiled alone and copied in; gives
\* the automaton and the vertices appended to slot.final_states
RECURSIVE CopyRules(_, _, _, _)
CopyRules(f, rules, slot_start_state, appended) ==
  IF rules = <<>>
  THEN [fst |-> f, appended |-> appended]
  ELSE LET rule == RuleFst(Upper(Head(rules)), Lower(Head(rules)), RuleWeight(Head(rules)))
           old_num_states == f.num_states
           copied == CopyArcs(add_states(f, rule.num_states - 1), rule,
                              slot_start_state, old_num_states)
       IN CopyRules(copied, Tail(rules), slot_start_state,
                    Append(appended, RuleFinalState(copied)))

\* the accepting vertices of an acceptor, in vertex order, translated
RECURSIVE FsaFinals(_, _, _, _)
FsaFinals(fsa, q, slot_start_state, old_num_states) ==
  IF q >= fsa.num_states THEN <<>>
  ELSE (IF q \in DOMAIN fsa.final
        THEN <<NewState(q, slot_start_state, old_num_states)>> ELSE <<>>)
       \o FsaFinals(fsa, q + 1, slot_start_state, old_num_states)

\* StemGuesser: the acceptor is copied in
CopyFsa(f, fsa, slot_start_state) ==
  LET old_num_states == f.num_states
  IN [fst |-> CopyArcs(add_states(f, fsa.num_states - 1), fsa,
                       slot_start_state, old_num_states),
      appended |-> FsaFinals(fsa, 0, slot_start_state, old_num_states)]

\* first_visit of a slot vertex: the entry vertex is allocated, then the body
MaterializeSlot(f, slot) ==
  LET slot_start_state == f.num_states
      g == add_state(f)
  IN IF slot.kind = "StemGuesser"
     THEN CopyFsa(g, slot.fst, slot_start_state)
     ELSE CopyRules(g, slot.rules, slot_start_state, <<>>)

\* the names neighbors(vertex) collects for a slot: every continuation class
\* of every rule that is not None
Conts(slot) ==
  UNION {{ContClasses(slot.rules[k])[j][1] : j \in DOMAIN ContClasses(slot.rules[k])} :
           k \in DOMAIN slot.rules} \ {None}

-----------------------------------------------------------------------------
(* compile: pass 2 *)

\* steps that forget the weight given with the continuation class
RECURSIVE ContSteps_unweighted(_, _)
ContSteps_unweighted(final_state, cont_classes) ==
  IF cont_classes = <<>> THEN <<>>
  ELSE <<[final_state |-> final_state, continuation_class |-> Head(cont_classes)[1],
          weight |-> 0]>>
       \o ContSteps_unweighted(final_state, Tail(cont_classes))

\* the (final_state, continuation_class, weight) steps of second_pass for a
\* slot, in the order the loops take them
RECURSIVE ContSteps(_, _)
ContSteps(final_state, cont_classes) ==
  IF cont_classes = <<>> THEN <<>>
  ELSE <<[final_state |-> final_state, continuation_class |-> Head(cont_classes)[1],
          weight |-> Head(cont_classes)[2]]>>
       \o ContSteps(final_state, Tail(cont_classes))

\* a wiring that gives the final vertex of every rule the continuations of
\* all the rules of the slot
ZipSteps_shared(slot) ==
  Flatten([k \in 1..Min(Len(slot.rules), Len(slot.final_states)) |->
             ContSteps(slot.final_states[k],
                       Flatten([j \in 1..Len(slot.rules) |-> ContClasses(slot.rules[j])]))])

\* regular Slot: zip(slot.rules, slot.final_states) pairs by position and
\* stops at the shorter of the two
ZipSteps(slot) ==
  Flatten([k \in 1..Min(Len(slot.rules), Len(slot.final_states)) |->
             ContSteps(slot.final_states[k], ContClasses(slot.rules[k]))])

\* a wiring that gives the continuations to the first accepting vertex only
GuesserSteps_first(slot) ==
  Flatten([k \in 1..Min(1, Len(slot.final_states)) |->
             ContSteps(slot.final_states[k], ContClasses(slot.rules[1]))])

\* StemGuesser: the continuation classes of rules[0] for every final state
GuesserSteps(slot) ==
  Flatten([k \in 1..Len(slot.final_states) |->
             ContSteps(slot.final_states[k], ContClasses(slot.rules[1]))])

SlotSteps(slot) ==
  IF slot.kind = "StemGuesser" THEN GuesserSteps(slot) ELSE ZipSteps(slot)

\* a step raises when set_final / add_arc is given a vertex the automaton does
\* not have, or when start_states has no entry for the continuation class
StepRaises(f, entry, step) ==
  \/ ~ValidStateId(f, step.final_state)
  \/ step.continuation_class # None /\ step.continuation_class \notin DOMAIN entry

\* a wiring that leaves out the arcs that go back to a vertex made earlier
ApplyStep_forward(f, entry, step) ==
  IF step.continuation_class = None
  THEN set_final(f, step.final_state, step.weight)
  ELSE IF entry[step.continuation_class] < step.final_state
  THEN f
  ELSE add_arc(f, Arc(step.final_state, Epsilon, Epsilon, step.weight,
                      entry[step.continuation_class]))

\* a wiring in which a Terminal continuation also leads back to the root, so
\* that a starting slot may follow the end of a word
ApplyStep_restart(f, entry, step) ==
  IF step.continuation_class = None
  THEN add_arc(set_final(f, step.final_state, step.weight),
               Arc(step.final_state, Epsilon, Epsilon, 0, entry["start"]))
  ELSE add_arc(f, Arc(step.final_state, Epsilon, Epsilon, step.weight,
                      entry[step.continuation_class]))

\* one step of second_pass: set_final for None, an epsilon arc otherwise
ApplyStep(f, entry, step) ==
  IF step.continuation_class = None
  THEN set_final(f, step.final_state, step.weight)
  ELSE add_arc(f, Arc(step.final_state, Epsilon, Epsilon, step.weight,
                      entry[step.continuation_class]))

RECURSIVE ApplySteps(_, _, _)
ApplySteps(f, entry, steps) ==
  IF steps = <<>> THEN f
  ELSE ApplySteps(ApplyStep(f, entry, Head(steps)), entry, Tail(steps))

\* a root that is wired to the first starting slot only
StartArcs_first(f, entry, names) ==
  IF names = <<>> THEN f
  ELSE add_arc(f, Arc(entry["start"], Epsilon, Epsilon, 0, entry[Head(names)]))

\* a root that is wired to its first and to its last starting slot, one arc each
StartArcs_ends(f, entry, names) ==
  IF names = <<>> THEN f
  ELSE add_arc(StartArcs_first(f, entry, names),
               Arc(entry["start"], Epsilon, Epsilon, 0, entry[names[Len(names)]]))

\* a root that is wired to every starting slot but one named 'start'
RECURSIVE StartArcs_others(_, _, _)
StartArcs_others(f, entry, names) ==
  IF names = <<>> THEN f
  ELSE StartArcs_others(IF Head(names) = "start" THEN f
                        ELSE add_arc(f, Arc(entry["start"], Epsilon, Epsilon, 0,
                                            entry[Head(names)])),
                        entry, Tail(names))

\* second_pass of 'start': an epsilon arc of weight 0.0 to the entry vertex of
\* every starting slot
RECURSIVE StartArcs(_, _, _)
StartArcs(f, entry, names) ==
  IF names = <<>> THEN f
  ELSE StartArcs(add_arc(f, Arc(entry["start"], Epsilon, Epsilon, 0, entry[Head(names)])),
                 entry, Tail(names))

-----------------------------------------------------------------------------
(* compile: finalization *)

States(f) == 0..(f.num_states - 1)

ArcsOf(f) == Range(f.arcs)

\* fst.verify(): the start vertex is set and every arc ends at a vertex of
\* the automaton
Verify(f) ==
  /\ ValidStateId(f, f.start)
  /\ \A k \in DOMAIN f.arcs : ValidStateId(f, f.arcs[k].nextstate)

IsEpsilonArc(arc) == arc.ilabel = Epsilon /\ arc.olabel = Epsilon

RECURSIVE SetToSeq(_)
SetToSeq(S) ==
  IF S = {} THEN <<>>
  ELSE LET x == CHOOSE y \in S : TRUE IN <<x>> \o SetToSeq(S \ {x})

RECURSIVE MinOf(_)
MinOf(S) ==
  LET x == CHOOSE y \in S : TRUE
  IN IF S = {x} THEN x ELSE Min(x, MinOf(S \ {x}))

\* one round of relaxation of the epsilon distances d (vertex -> weight)
Relax(f, d) ==
  LET reach == DOMAIN d \cup
               {a.nextstate : a \in {b \in ArcsOf(f) : IsEpsilonArc(b) /\ b.src \in DOMAIN d}}
      cand(t) == (IF t \in DOMAIN d THEN {d[t]} ELSE {}) \cup
                 {d[a.src] + a.weight :
                    a \in {b \in ArcsOf(f) : IsEpsilonArc(b) /\ b.src \in DOMAIN d
                                              /\ b.nextstate = t}}
  IN [t \in reach |-> MinOf(cand(t))]

RECURSIVE RelaxN(_, _, _)
RelaxN(f, d, n) ==
  IF n = 0 THEN d
  ELSE LET e == Relax(f, d) IN IF e = d THEN d ELSE RelaxN(f, e, n - 1)

\* the epsilon closure of s with the shortest epsilon distance to each member
EpsilonDistance(f, s) == RelaxN(f, (s :> 0), f.num_states)

\* the arcs of s after epsilon removal: the non-epsilon arcs of the closure,
\* those with equal labels and destination combined by the semiring sum
ExpandedArcs(f, s) ==
  LET d == EpsilonDistance(f, s)
      out == {a \in ArcsOf(f) : ~IsEpsilonArc(a) /\ a.src \in DOMAIN d}
      keys == {<<a.ilabel, a.olabel, a.nextstate>> : a \in out}
      w(key) == MinOf({d[a.src] + a.weight :
                         a \in {b \in out : <<b.ilabel, b.olabel, b.nextstate>> = key}})
  IN {Arc(s, key[1], key[2], w(key), key[3]) : key \in keys}

\* the final weight of s after epsilon removal, as a set: empty when no final
\* vertex is in the closure
ExpandedFinal(f, s) ==
  LET d == EpsilonDistance(f, s)
      fin == {d[t] + f.final[t] : t \in DOMAIN d \cap DOMAIN f.final}
  IN IF fin = {} THEN {} ELSE {MinOf(fin)}

Successors(arcset, S) == S \cup {a.nextstate : a \in {b \in arcset : b.src \in S}}

Predecessors(arcset, S) == S \cup {a.src : a \in {b \in arcset : b.nextstate \in S}}

RECURSIVE Forward(_, _)
Forward(arcset, S) ==
  IF Successors(arcset, S) = S THEN S ELSE Forward(arcset, Successors(arcset, S))

RECURSIVE Backward(_, _)
Backward(arcset, S) ==
  IF Predecessors(arcset, S) = S THEN S ELSE Backward(arcset, Predecessors(arcset, S))

\* Connect: only the vertices on a path from the start to a final vertex are
\* kept, renumbered in their order
Connect(f) ==
  LET arcset == ArcsOf(f)
      acc == IF ValidStateId(f, f.start) THEN Forward(arcset, {f.start}) ELSE {}
      keep == acc \cap Backward(arcset, DOMAIN f.final)
      id(q) == Cardinality({r \in keep : r < q})
      kept == SelectSeq(f.arcs, LAMBDA a : a.src \in keep /\ a.nextstate \in keep)
  IN [num_states |-> Cardinality(keep),
      start |-> IF f.start \in keep THEN id(f.start) ELSE -1,
      final |-> [n \in {id(q) : q \in keep \cap DOMAIN f.final} |->
                   f.final[CHOOSE q \in keep : id(q) = n]],
      arcs |-> [k \in DOMAIN kept |->
                  Arc(id(kept[k].src), kept[k].ilabel, kept[k].olabel,
                      kept[k].weight, id(kept[k].nextstate))]]

\* fst.rmepsilon(): epsilon removal, then Connect
RmEpsilon(f) ==
  LET finals == {q \in States(f) : ExpandedFinal(f, q) # {}}
  IN Connect([num_states |-> f.num_states,
              start |-> f.start,
              final |-> [q \in finals |-> CHOOSE w \in ExpandedFinal(f, q) : TRUE],
              arcs |-> Flatten([k \in 1..f.num_states |->
                                  SetToSeq(ExpandedArcs(f, k - 1))])])

\* fst.properties(I_DETERMINISTIC, True): no vertex has two arcs with one
\* input label
IDeterministic(f) ==
  \A j, k \in DOMAIN f.arcs :
    (f.arcs[j].src = f.arcs[k].src /\ f.arcs[j].ilabel = f.arcs[k].ilabel) => j = k

ODeterministic(f) ==
  \A j, k \in DOMAIN f.arcs :
    (f.arcs[j].src = f.arcs[k].src /\ f.arcs[j].olabel = f.arcs[k].olabel) => j = k

\* a test that looks at the input labels only
ShouldOptimize_input(f) == IDeterministic(f)

\* the test that guards fst.optimize()
ShouldOptimize(f) == IDeterministic(f) /\ ODeterministic(f)

\* what distinguishes a vertex from the others of its class: its arcs, with
\* the class of each destination
Signature(f, cls, q) ==
  {<<a.ilabel, a.olabel, a.weight, cls[a.nextstate]>> :
     a \in {b \in ArcsOf(f) : b.src = q}}

FinalKey(f, q) == IF q \in DOMAIN f.final THEN {f.final[q]} ELSE {}

\* classes are named by their least vertex
InitialClasses(f) ==
  [q \in States(f) |-> MinOf({r \in States(f) : FinalKey(f, r) = FinalKey(f, q)})]

Refine(f, cls) ==
  [q \in States(f) |->
     MinOf({r \in States(f) : cls[r] = cls[q] /\ Signature(f, cls, r) = Signature(f, cls, q)})]

RECURSIVE RefineN(_, _, _)
RefineN(f, cls, n) ==
  IF n = 0 THEN cls
  ELSE LET finer == Refine(f, cls)
       IN IF finer = cls THEN cls ELSE RefineN(f, finer, n - 1)

\* Minimize on a deterministic automaton: equivalent vertices are merged
\* (the pushing of weights and outputs toward the start that precedes the
\* merge changes no path's input, output or total weight and is left out)
Minimize(f) ==
  LET cls == RefineN(f, InitialClasses(f), f.num_states)
      reps == {cls[q] : q \in States(f)}
      id(q) == Cardinality({r \in reps : r < cls[q]})
      kept == SelectSeq(f.arcs, LAMBDA a : a.src \in reps)
  IN [num_states |-> Cardinality(reps),
      start |-> IF ValidStateId(f, f.start) THEN id(f.start) ELSE -1,
      final |-> [n \in {id(q) : q \in reps \cap DOMAIN f.final} |->
                   f.final[CHOOSE q \in reps : id(q) = n]],
      arcs |-> [k \in DOMAIN kept |->
                  Arc(id(kept[k].src), kept[k].ilabel, kept[k].olabel,
                      kept[k].weight, id(kept[k].nextstate))]]

\* fst.optimize() as compile calls it, on an automaton without epsilon arcs
\* that is input-deterministic
Optimize(f) == Minimize(f)

\* lines 191-198: what compile returns for the verified automaton
Finalize(f) ==
  LET g == RmEpsilon(f) IN IF ShouldOptimize(g) THEN Optimize(g) ELSE g

-----------------------------------------------------------------------------
(* StemGuesser: the acceptors pynini builds for the regular expression.  A   *)
(* string is a sequence of one-character strings; an arc carries the byte   *)
(* of its character as input and as output label, with weight 0.            *)

\* the byte of a character
Ord(ch) ==
  CASE ch = "(" -> 40 [] ch = ")" -> 41 [] ch = "*" -> 42 [] ch = "+" -> 43
    [] ch = "." -> 46 [] ch = "?" -> 63 [] ch = "C" -> 67 [] ch = "V" -> 86
    [] ch = "[" -> 91 [] ch = "]" -> 93 [] ch = "a" -> 97 [] ch = "f" -> 102
    [] ch = "k" -> 107 [] ch = "t" -> 116 [] ch = "w" -> 119

\* pynini.accep(s): a chain that reads s
accep(s) ==
  [num_states |-> Len(s) + 1, start |-> 0, final |-> (Len(s) :> 0),
   arcs |-> [k \in 1..Len(s) |-> Arc(k - 1, Ord(s[k]), Ord(s[k]), 0, k)]]

\* the arcs and the final vertices of g when its vertices are numbered from n
ShiftArcs(g, n) ==
  [k \in DOMAIN g.arcs |->
     Arc(g.arcs[k].src + n, g.arcs[k].ilabel, g.arcs[k].olabel, g.arcs[k].weight,
         g.arcs[k].nextstate + n)]

ShiftFinal(g, n) == [q \in {r + n : r \in DOMAIN g.final} |-> g.final[q - n]]

\* epsilon arcs from the final vertices of f to vertex q
FinalArcs(f, q) ==
  LET finals == SetToSeq(DOMAIN f.final)
  IN [k \in DOMAIN finals |-> Arc(finals[k], Epsilon, Epsilon, f.final[finals[k]], q)]

\* f.concat(g), f + g: the vertices of g are added, the final vertices of f
\* lead to the start of g and are final no more
concat(f, g) ==
  [num_states |-> f.num_states + g.num_states,
   start |-> f.start,
   final |-> ShiftFinal(g, f.num_states),
   arcs |-> f.arcs \o FinalArcs(f, g.start + f.num_states) \o ShiftArcs(g, f.num_states)]

\* f.union(g), pynini.union(f, g): a new start vertex leads to both
union(f, g) ==
  LET s == f.num_states + g.num_states
  IN [num_states |-> s + 1,
      start |-> s,
      final |-> f.final @@ ShiftFinal(g, f.num_states),
      arcs |-> f.arcs \o ShiftArcs(g, f.num_states)
               \o <<Arc(s, Epsilon, Epsilon, 0, f.start),
                    Arc(s, Epsilon, Epsilon, 0, g.start + f.num_states)>>]

\* pynini.union(*strings): the acceptor of any one of the strings
RECURSIVE UnionOf(_)
UnionOf(strings) ==
  IF Len(strings) = 1 THEN accep(strings[1])
  ELSE union(UnionOf(SubSeq(strings, 1, Len(strings) - 1)), accep(strings[Len(strings)]))

\* pynini.closure(f, 1): one or more
ClosurePlus(f) == [f EXCEPT !.arcs = @ \o FinalArcs(f, f.start)]

\* pynini.closure(f): zero or more; a new start vertex accepts the empty string
ClosureStar(f) ==
  LET s == f.num_states
  IN [num_states |-> s + 1,
      start |-> s,
      final |-> f.final @@ (s :> 0),
      arcs |-> f.arcs \o FinalArcs(f, f.start) \o <<Arc(s, Epsilon, Epsilon, 0, f.start)>>]

\* pynini.closure(f, 0, 1): at most one
ClosureQues(f) == union(f, accep(<<>>))

\* the labels on the arcs of f, as a sequence in increasing order
RECURSIVE SortedSeq(_)
SortedSeq(S) ==
  IF S = {} THEN <<>>
  ELSE LET x == CHOOSE y \in S : \A z \in S : y <= z IN <<x>> \o SortedSeq(S \ {x})

\* the vertices that the vertices of Q reach by an arc that reads label
Move(f, Q, label) ==
  {f.arcs[k].nextstate : k \in {j \in DOMAIN f.arcs : f.arcs[j].src \in Q /\ f.arcs[j].ilabel = label}}

\* the sets among moves that are not empty and not in sets yet, added to sets
RECURSIVE AddNew(_, _)
AddNew(sets, moves) ==
  IF moves = <<>> THEN sets
  ELSE AddNew(IF Head(moves) = {} \/ Head(moves) \in Range(sets)
              THEN sets ELSE Append(sets, Head(moves)),
              Tail(moves))

\* the sets of vertices, in the order the subset construction finds them:
\* sets is the sequence found so far, k the position of the set at work
RECURSIVE SubsetsFrom(_, _, _, _)
SubsetsFrom(f, labels, sets, k) ==
  IF k > Len(sets) THEN sets
  ELSE SubsetsFrom(f, labels,
                   AddNew(sets, [j \in DOMAIN labels |-> Move(f, sets[k], labels[j])]),
                   k + 1)

\* determinization of an acceptor without epsilon arcs, all weights 0
Determinize(f) ==
  LET labels == SortedSeq({f.arcs[k].ilabel : k \in DOMAIN f.arcs})
      sets == SubsetsFrom(f, labels, <<{f.start}>>, 1)
      id(Q) == CHOOSE n \in DOMAIN sets : sets[n] = Q
      arcsOf(n) ==
        LET live == SelectSeq(labels, LAMBDA l : Move(f, sets[n], l) # {})
        IN [j \in DOMAIN live |->
              Arc(n - 1, live[j], live[j], 0, id(Move(f, sets[n], live[j])) - 1)]
  IN [num_states |-> Len(sets),
      start |-> 0,
      final |-> [q \in {n - 1 : n \in {m \in DOMAIN sets : sets[m] \cap DOMAIN f.final # {}}} |-> 0],
      arcs |-> Flatten([n \in DOMAIN sets |-> arcsOf(n)])]

\* fst.optimize() on the acceptor of a regular expression: epsilon removal,
\* determinization, minimization
OptimizeAcceptor(f) == Minimize(Determinize(RmEpsilon(f)))

-----------------------------------------------------------------------------
(* StemGuesser.__init__: the scan of the regular expression *)

UnmatchedParentheses == "Unmatched parentheses"

UnmatchedBrackets == "Unmatched brackets"

AlphabetRequired == "Alphabet required if regex includes sigma"

EmptyQuantification == "Empty quantification"

Quantifiers == {"?", "*", "+"}

Frame(kind, f) == [kind |-> kind, fst |-> f]

\* { symb for symbol_class in alphabet.values() for symb in symbol_class }
Symbols(alphabet) == UNION {Range(alphabet[c]) : c \in DOMAIN alphabet}

\* pynini.union(*list(symbols))
Sigma(alphabet) == UnionOf(SetToSeq(Symbols(alphabet)))

\* a scan that reads the key of a class as the character it is written with
Symbol_literal(ch, alphabet) == accep(<<ch>>)

\* a scan for which '.' is every symbol wherever it stands
Symbol_sigma(ch, alphabet) ==
  IF ch = "." /\ DOMAIN alphabet # {} THEN Sigma(alphabet)
  ELSE IF ch \in DOMAIN alphabet THEN UnionOf(alphabet[ch]) ELSE accep(<<ch>>)

\* what a character stands for: the symbols of its class, or itself
Symbol(ch, alphabet) ==
  IF ch \in DOMAIN alphabet THEN UnionOf(alphabet[ch]) ELSE accep(<<ch>>)

\* a check that lets either closing bracket close either opening bracket
Closes_any(open, ch) == TRUE

\* stack.pop(-1) != '(' , stack.pop(-1) != '[': the bracket popped is the
\* partner of the closing bracket
Closes(open, ch) == (ch = ")" /\ open = "(") \/ (ch = "]" /\ open = "[")

\* a union frame that strings its characters together
InUnion_concat(f, g) == concat(f, g)

\* a character inside '[' ']': the first is concatenated to the empty
\* acceptor of the frame, the others are alternatives
InUnion(f, g) == IF f.num_states = 1 THEN concat(f, g) ELSE union(f, g)

\* a scan that lets a quantifier open the expression
QuantifierFirst_allowed(i) == FALSE

\* if i == 0: a quantifier that opens the expression
QuantifierFirst(i) == i = 1

SetTop(fst_stack, frame) == [fst_stack EXCEPT ![Len(fst_stack)] = frame]

\* a scan for which every quantifier is a star
Quantify_star(ch, top, alone, f) == ClosureStar(f)

\* the closure a quantifier makes of the acceptor on top of fst_stack
Quantify(ch, top, alone, f) ==
  CASE ch = "?" -> ClosureQues(f)
    [] ch = "+" -> ClosurePlus(f)
    [] ch = "*" -> IF alone \/ top.kind = "sigma"
                   THEN union(ClosureStar(f), accep(<<>>))
                   ELSE ClosureStar(f)

\* one turn of the loop over the characters: st is [stack, fst_stack, err],
\* err the exception the turn raises
ScanChar(st, regex, i, alphabet) ==
  LET ch == regex[i]
      fs == st.fst_stack
      top == fs[Len(fs)]
      raise(e) == [st EXCEPT !.err = e]
      push(kind, f) == [st EXCEPT !.fst_stack = Append(fs, Frame(kind, f))]
      close(e) ==
        IF st.stack = <<>> THEN raise("IndexError")
        ELSE IF ~Closes(st.stack[Len(st.stack)], ch) THEN raise(e)
        ELSE [st EXCEPT !.stack = SubSeq(@, 1, Len(@) - 1),
                        !.fst_stack = SetTop(fs, Frame("processed", top.fst))]
  IN CASE ch = "[" -> [push("union", accep(<<>>)) EXCEPT !.stack = Append(@, ch)]
       [] ch = "(" -> [push("scope", accep(<<>>)) EXCEPT !.stack = Append(@, ch)]
       [] ch = ")" -> close(UnmatchedParentheses)
       [] ch = "]" -> close(UnmatchedBrackets)
       [] OTHER ->
            IF fs # <<>> /\ top.kind \in {"scope", "union"}
            THEN [st EXCEPT !.fst_stack =
                    SetTop(fs, Frame(top.kind,
                                     IF top.kind = "scope"
                                     THEN concat(top.fst, Symbol(ch, alphabet))
                                     ELSE InUnion(top.fst, Symbol(ch, alphabet))))]
            ELSE IF ch = "."
            THEN IF DOMAIN alphabet = {} THEN raise(AlphabetRequired)
                 ELSE push("sigma", Sigma(alphabet))
            ELSE IF ch \in Quantifiers
            THEN IF QuantifierFirst(i) THEN raise(EmptyQuantification)
                 ELSE IF fs = <<>> THEN raise("IndexError")
                 ELSE [st EXCEPT !.fst_stack =
                         SetTop(fs, Frame(top.kind,
                                          Quantify(ch, top,
                                                   Len(fs) = 1 /\ i = Len(regex),
                                                   top.fst)))]
            ELSE push("symbol", Symbol(ch, alphabet))

\* the turns i, ..., n - 1 of the loop, as far as they get
RECURSIVE ScanBefore(_, _, _, _, _)
ScanBefore(st, regex, i, n, alphabet) ==
  IF i >= n \/ st.err # "" THEN st
  ELSE ScanBefore(ScanChar(st, regex, i, alphabet), regex, i + 1, n, alphabet)

\* the loop, from character i on, as far as it gets
Scan(st, regex, i, alphabet) == ScanBefore(st, regex, i, Len(regex) + 1, alphabet)

\* the state of the scan before the loop
ScanStart == [stack |-> <<>>, fst_stack |-> <<>>, err |-> ""]

\* for (_, f) in fst_stack: the frames concatenated in order
RECURSIVE ConcatFrames(_)
ConcatFrames(fst_stack) ==
  IF Len(fst_stack) = 1 THEN fst_stack[1].fst
  ELSE concat(ConcatFrames(SubSeq(fst_stack, 1, Len(fst_stack) - 1)),
              fst_stack[Len(fst_stack)].fst)

Refused(e) == [ok |-> FALSE, err |-> e, obj |-> None]

Built(obj) == [ok |-> TRUE, err |-> "", obj |-> obj]

\* StemGuesser.__init__: the object built, or the exception raised
StemGuesserInit(min_word_constraint, name, cont_classes, alphabet, start) ==
  LET st == Scan(ScanStart, min_word_constraint, 1, alphabet)
  IN IF st.err # "" THEN Refused(st.err)
     ELSE IF st.stack # <<>> THEN Refused(UnmatchedBrackets)
     ELSE IF SlotInitRaises(StemGuesserRules(cont_classes)) THEN Refused(NoContinuationClass)
     ELSE IF st.fst_stack = <<>> THEN Refused("AttributeError")
     ELSE Built(StemGuesserObject(name, cont_classes, start,
                                  OptimizeAcceptor(ConcatFrames(st.fst_stack))))

-----------------------------------------------------------------------------
(* The caller's declarations *)

Rule(upper, lower, cont_classes, rule_weight) == <<upper, lower, cont_classes, rule_weight>>

To(continuation_class, weight) == <<continuation_class, weight>>

SlotDecl(name, rules, start) ==
  [kind |-> "Slot", name |-> name, rules |-> rules, start |-> start]

GuesserDecl(name, cont_classes, start, fsa) ==
  [kind |-> "StemGuesser", name |-> name, cont_classes |-> cont_classes,
   start |-> start, fsa |-> fsa]

\* the optimized acceptor of the regex 'f+' (one or more 'f')
FPlus ==
  [num_states |-> 2, start |-> 0, final |-> (1 :> 0),
   arcs |-> <<Arc(0, 102, 102, 0, 1), Arc(1, 102, 102, 0, 1)>>]

\* the optimized acceptor of the regex 'ff?' (one 'f' or two): both the
\* vertex after the first 'f' and the vertex after the second accept
FOneOrTwo ==
  [num_states |-> 3, start |-> 0, final |-> (1 :> 0 @@ 2 :> 0),
   arcs |-> <<Arc(0, 102, 102, 0, 1), Arc(1, 102, 102, 0, 2)>>]

Rules1 ==
  { << Rule(<<97>>, <<98>>, <<To("c2", 0)>>, 0) >>,
    << Rule(<<97>>, <<98>>, <<To("c2", 0)>>, 1),
       Rule(<<97>>, <<98>>, <<To("c3", 0)>>, 2) >>,
    << Rule(<<97>>, <<98>>, <<To("c1", 0)>>, 0),
       Rule(<<99>>, <<100>>, <<To(None, 0)>>, 0) >>,
    << Rule(<<97>>, <<98>>, <<To("c2", 1), To(None, 2)>>, 1) >>,
    << Rule(<<97>>, <<98>>, <<To(None, 5), To("c2", 0)>>, 0) >>,
    << Rule(<<>>, <<>>, <<To("c2", 1), To("c3", 0)>>, 0) >>,
    << Rule(<<97>>, <<98>>, <<To(None, 0)>>, 0),
       Rule(<<>>, <<>>, <<To("c3", 1)>>, 0) >>,
    << Rule(<<>>, <<>>, <<To("c3", 0), To(None, 3)>>, 1),
       Rule(<<97>>, <<98>>, <<To(None, 0)>>, 0) >>,
    << Rule(<<97>>, <<98>>, <<>>, 0) >>,
    << Rule(<<97>>, <<98>>, <<To(None, 0)>>, 0),
       Rule(<<99>>, <<100>>, <<>>, 0) >>,
    << >> }

Decls1 == {SlotDecl("c1", r, s) : r \in Rules1, s \in BOOLEAN}

Rules2 ==
  { << Rule(<<99>>, <<100>>, <<To(None, 0)>>, 3) >>,
    << Rule(<<99>>, <<100>>, <<To("c3", 2)>>, 0) >>,
    << Rule(<<99>>, <<100>>, <<To("c1", 0), To(None, 1)>>, 0) >>,
    << Rule(<<>>, <<>>, <<To("c3", 0)>>, 1) >>,
    << Rule(<<99, 101>>, <<100>>, <<To(None, 1), To(None, 2)>>, 0) >> }

Decls2 ==
  {SlotDecl("c2", r, FALSE) : r \in Rules2}
  \cup {SlotDecl("c2", << Rule(<<99>>, <<100>>, <<To("c3", 2)>>, 0) >>, TRUE)}
  \cup {GuesserDecl("c2", c, FALSE, FPlus) : c \in {<<To("c3", 0)>>, <<>>}}
  \cup {GuesserDecl("c2", <<To("c3", 0)>>, TRUE, FOneOrTwo),
        GuesserDecl("c2", <<To(None, 1)>>, FALSE, FOneOrTwo)}

Rules3 ==
  { << Rule(<<99>>, <<100>>, <<To(None, 0)>>, 4) >>,
    << Rule(<<101>>, <<102>>, <<To("c2", 0)>>, 0),
       Rule(<<101>>, <<102>>, <<To(None, 1)>>, 0) >>,
    << Rule(<<>>, <<>>, <<To(None, 0)>>, 2) >>,
    << Rule(<<101>>, <<102>>, <<To("c4", 0)>>, 0) >>,
    << Rule(<<99>>, <<100>>, <<To(None, 0)>>, 0),
       Rule(<<99>>, <<102>>, <<To(None, 0)>>, 0) >> }

Decls3 == {SlotDecl("c3", r, FALSE) : r \in Rules3}

Lexicons == {<<d1, d2, d3>> : d1 \in Decls1, d2 \in Decls2, d3 \in Decls3}

\* a slot that bears the name of the virtual root; its rule reads 's' and
\* writes 'S', which no other rule does
RulesReserved ==
  { << Rule(<<83>>, <<115>>, <<To(None, 0)>>, 0) >>,
    << Rule(<<83>>, <<115>>, <<To("c1", 0)>>, 0),
       Rule(<<>>, <<>>, <<To(None, 1)>>, 0) >> }

DeclsReserved == {SlotDecl("start", r, TRUE) : r \in RulesReserved}

\* the slots that go with it: c1 may name 'start' as a continuation
Rules1Reserved ==
  { << Rule(<<97>>, <<98>>, <<To("start", 0), To(None, 0)>>, 0) >>,
    << Rule(<<97>>, <<98>>, <<To("c2", 0)>>, 0) >>,
    << Rule(<<97>>, <<98>>, <<To("c1", 0)>>, 0),
       Rule(<<99>>, <<100>>, <<To(None, 0)>>, 0) >> }

ReservedLexicons ==
  {<<d0>> : d0 \in DeclsReserved}
  \cup {<<d0, d1, d2>> : d0 \in DeclsReserved,
                         d1 \in {SlotDecl("c1", r, st) : r \in Rules1Reserved, st \in BOOLEAN},
                         d2 \in {SlotDecl("c2", r, FALSE) : r \in Rules2}}

\* StemGuesser(min_word_constraint, name, cont_classes, alphabet, start)
RegexDecl(min_word_constraint, name, cont_classes, alphabet, start) ==
  [kind |-> "StemGuesser", name |-> name, cont_classes |-> cont_classes,
   start |-> start, regex |-> min_word_constraint, alphabet |-> alphabet]

\* phone classes with a symbol of two characters
NahuatlAlphabet == [C |-> << <<"t">>, <<"k", "w">> >>, V |-> << <<"a">> >>]

\* alphabet={}
NoAlphabet == [c \in {} |-> <<>>]

Alphabets == {NoAlphabet, NahuatlAlphabet}

RegexChars == {"(", ")", "[", "]", ".", "?", "*", "+", "V"}

\* the two expressions of the bimoraic constraint
SigmaForm == <<".", "*", "V", ".", "*", "V", ".", "*">>

ClassForm ==
  <<"[", "C", "V", "]", "*", "V", "[", "C", "V", "]", "*", "V", "[", "C", "V", "]", "*">>

\* expressions of the tests, with groups and quantifiers side by side
GroupRegexes ==
  { <<"C", "V", "*">>,
    <<"(", "C", "V", ")", "*", "C">>,
    <<"(", "C", "V", ")", "+">>,
    <<"C", "[", "C", "V", "]", "?">>,
    <<"[", "C", "V", "]", "[", "C", "V", "]">>,
    <<"(", "C", "V", ")", "[", "C", "V", "]">>,
    <<"[", "C", "V", "]", "(", "V", ")">>,
    <<"[", ".", "*", "]">> }

\* expressions with a group closed inside a group that is still open
NestedRegexes ==
  { <<"(", "(", ")", "*", ")">>,
    <<"(", "(", ")", ".", ")">>,
    <<"[", "(", "V", ")", "?", "]">> }

Regexes ==
  UNION {[1..n -> RegexChars] : n \in 0..MaxRegex}
  \cup {SigmaForm, ClassForm} \cup GroupRegexes \cup NestedRegexes

\* a lexicon that is one starting, terminal StemGuesser; the bimoraic ones
\* also with the StemGuesser as its own continuation
GuesserLexicons ==
  {<<RegexDecl(r, "g", <<To(None, 0)>>, a, TRUE)>> : r \in Regexes, a \in Alphabets}
  \cup {<<RegexDecl(r, "g", <<To("g", 1), To(None, 0)>>, NahuatlAlphabet, TRUE)>> :
          r \in {SigmaForm, ClassForm}}

-----------------------------------------------------------------------------
(* The state machine *)

Raised(message) == [ok |-> FALSE, err |-> message, fst |-> EmptyFst]

Returned(f) == [ok |-> TRUE, err |-> "", fst |-> f]

\* compile's own call _dfs(..., 'start', ...)
RootFrame == [vertex |-> "compile", nbors |-> <<"start">>, i |-> 1]

Top == stack[Len(stack)]

\* the vertex the running _dfs call is about
Vertex == Top.nbors[Top.i]

Calling == pc = "dfs" /\ Top.i <= Len(Top.nbors)

\* the frame on top has handed its neighbour over: its loop moves on
Advance(st) == [st EXCEPT ![Len(st)].i = @ + 1]

Init ==
  /\ decl \in Lexicons
  /\ slots = <<>>
  /\ pc = "construct"
  /\ err = ""
  /\ ncalls = 0
  /\ cset = {}
  /\ slot_map = <<>>
  /\ starting_slots = <<>>
  /\ fst = EmptyFst
  /\ start_states = <<>>
  /\ pass = 0
  /\ visited = {}
  /\ stack = <<>>
  /\ iter_order = <<>>
  /\ results = <<>>

\* the caller constructs its next Slot / StemGuesser
Construct ==
  /\ pc = "construct"
  /\ LET d == decl[Len(slots) + 1]
         made == IF FromRegex(d)
                 THEN StemGuesserInit(d.regex, d.name, d.cont_classes, d.alphabet, d.start)
                 ELSE IF SlotInitRaises(DeclRules(d)) THEN Refused(NoContinuationClass)
                 ELSE Built(DeclObject(d))
     IN IF ~made.ok
        THEN /\ pc' = "failed"
             /\ err' = made.err
             /\ UNCHANGED slots
        ELSE /\ slots' = Append(slots, made.obj)
             /\ pc' = IF Len(slots) + 1 = Len(decl) THEN "idle" ELSE "construct"
             /\ UNCHANGED err
  /\ UNCHANGED <<decl, ncalls, cset, slot_map, starting_slots, fst, start_states,
                 pass, visited, stack, iter_order, results>>

\* { slot.name:slot for slot in slots }: one slot per name
SlotMaps(S) ==
  {m \in [{slots[k].name : k \in S} -> S] : \A n \in DOMAIN m : slots[m[n]].name = n}

\* a compile that takes every slot for a starting slot
StartNames_every(S) == {slots[k].name : k \in S}

\* { slot.name:slot for slot in slots if slot.start }
StartNames(S) == {slots[k].name : k \in {j \in S : slots[j].start}}

\* compile(S), lines 49-54 and the call of the first _dfs
Compile(S) ==
  \E m \in SlotMaps(S) : \E keys \in Perms(StartNames(S)) :
    /\ cset' = S
    /\ slot_map' = m
    /\ starting_slots' = keys
    /\ fst' = EmptyFst
    /\ start_states' = <<>>
    /\ visited' = {}
    /\ ncalls' = ncalls + 1
    /\ IF Len(keys) = 0
       THEN /\ pc' = "idle"
            /\ err' = "need at least 1 slot to be a starting slot"
            /\ results' = Append(results, Raised(err'))
            /\ pass' = 0
            /\ stack' = <<>>
       ELSE /\ pc' = "dfs"
            /\ err' = ""
            /\ pass' = 1
            /\ stack' = <<RootFrame>>
            /\ UNCHANGED results
    /\ UNCHANGED <<decl, slots, iter_order>>

\* the caller compiles the slots it has just constructed
FirstCompile ==
  /\ pc = "idle"
  /\ ncalls = 0
  /\ Compile(DOMAIN slots)

\* the caller passes slot objects an earlier compile call has seen
CompileAgain ==
  /\ pc = "idle"
  /\ ncalls > 0
  /\ ncalls < MaxCalls
  /\ \E S \in SUBSET (DOMAIN slots) : Compile(S)

\* an exception leaves compile: the caller gets no automaton
Raise(message) ==
  /\ pc' = "idle"
  /\ err' = message
  /\ results' = Append(results, Raised(message))
  /\ stack' = <<>>

\* neighbors(vertex), as the lists it can return
\* a neighbors that leaves out the names that are not in slot_map
Neighbors_known(v) ==
  IF v = "start" THEN {starting_slots}
  ELSE LET conts == Conts(slots[slot_map[v]]) \cap DOMAIN slot_map
       IN IF conts \in DOMAIN iter_order THEN {iter_order[conts]} ELSE Perms(conts)

Neighbors(v) ==
  IF v = "start" THEN {starting_slots}
  ELSE LET conts == Conts(slots[slot_map[v]])
       IN IF conts \in DOMAIN iter_order THEN {iter_order[conts]} ELSE Perms(conts)

\* _dfs lines 21-22 after visit returned: the vertex is marked and its
\* neighbours are listed
Expand(v) ==
  \E nbors \in Neighbors(v) :
    /\ visited' = visited \cup {v}
    /\ stack' = Append(stack, [vertex |-> v, nbors |-> nbors, i |-> 1])
    /\ iter_order' = IF v = "start" THEN iter_order
                     ELSE (Conts(slots[slot_map[v]]) :> nbors) @@ iter_order

\* _dfs on an unvisited vertex in pass 1: first_visit
first_visit ==
  /\ Calling /\ pass = 1 /\ Vertex \notin visited
  /\ IF Vertex = "start"
     THEN /\ fst' = set_start(add_state(fst), fst.num_states)
          /\ start_states' = ("start" :> fst.num_states) @@ start_states
          /\ Expand(Vertex)
          /\ UNCHANGED <<slots, pc, err, results>>
     ELSE IF Vertex \notin DOMAIN slot_map
     THEN /\ Raise("KeyError")
          /\ UNCHANGED <<slots, fst, start_states, visited, iter_order>>
     ELSE LET made == MaterializeSlot(fst, slots[slot_map[Vertex]])
          IN /\ fst' = made.fst
             /\ slots' = [slots EXCEPT ![slot_map[Vertex]].final_states = @ \o made.appended]
             /\ start_states' = (Vertex :> fst.num_states) @@ start_states
             /\ Expand(Vertex)
             /\ UNCHANGED <<pc, err, results>>
  /\ UNCHANGED <<decl, ncalls, cset, slot_map, starting_slots, pass>>

\* _dfs on an unvisited vertex in pass 2: second_pass
second_pass ==
  /\ Calling /\ pass = 2 /\ Vertex \notin visited
  /\ IF Vertex = "start"
     THEN /\ fst' = StartArcs(fst, start_states, starting_slots)
          /\ Expand(Vertex)
          /\ UNCHANGED <<pc, err, results>>
     ELSE LET steps == SlotSteps(slots[slot_map[Vertex]])
          IN IF \E k \in DOMAIN steps : StepRaises(fst, start_states, steps[k])
             THEN /\ Raise("FstIndexError")
                  /\ UNCHANGED <<fst, visited, iter_order>>
             ELSE /\ fst' = ApplySteps(fst, start_states, steps)
                  /\ Expand(Vertex)
                  /\ UNCHANGED <<pc, err, results>>
  /\ UNCHANGED <<decl, slots, ncalls, cset, slot_map, starting_slots, start_states, pass>>

\* a _dfs that goes through the neighbours of a visited vertex again
revisit_expands ==
  /\ Calling /\ Vertex \in visited
  /\ \E nbors \in Neighbors(Vertex) :
       stack' = Append(stack, [vertex |-> Vertex, nbors |-> nbors, i |-> 1])
  /\ UNCHANGED <<decl, slots, pc, err, ncalls, cset, slot_map, starting_slots, fst,
                 start_states, pass, visited, iter_order, results>>

\* a revisit that copies the slot into the master automaton once more
revisit_copies ==
  /\ Calling /\ Vertex \in visited
  /\ IF pass = 1 /\ Vertex # "start"
     THEN LET made == MaterializeSlot(fst, slots[slot_map[Vertex]])
          IN /\ fst' = made.fst
             /\ slots' = [slots EXCEPT ![slot_map[Vertex]].final_states = @ \o made.appended]
             /\ start_states' = (Vertex :> fst.num_states) @@ start_states
     ELSE UNCHANGED <<fst, slots, start_states>>
  /\ stack' = Advance(stack)
  /\ UNCHANGED <<decl, pc, err, ncalls, cset, slot_map, starting_slots,
                 pass, visited, iter_order, results>>

\* _dfs on a visited vertex: revisit, which does nothing
revisit ==
  /\ Calling /\ Vertex \in visited
  /\ stack' = Advance(stack)
  /\ UNCHANGED <<decl, slots, pc, err, ncalls, cset, slot_map, starting_slots, fst,
                 start_states, pass, visited, iter_order, results>>

\* a _dfs that returns before its loop over the neighbours is over
finish_early ==
  /\ pc = "dfs" /\ Len(stack) > 1
  /\ stack' = Advance(SubSeq(stack, 1, Len(stack) - 1))
  /\ UNCHANGED <<decl, slots, pc, err, ncalls, cset, slot_map, starting_slots, fst,
                 start_states, pass, visited, iter_order, results>>

\* the loop over the neighbours is over: finish, which does nothing, and the
\* call returns to the loop of its caller
finish ==
  /\ pc = "dfs" /\ Top.i > Len(Top.nbors) /\ Len(stack) > 1
  /\ stack' = Advance(SubSeq(stack, 1, Len(stack) - 1))
  /\ UNCHANGED <<decl, slots, pc, err, ncalls, cset, slot_map, starting_slots, fst,
                 start_states, pass, visited, iter_order, results>>

\* the first _dfs has returned: compile starts the second with a fresh
\* visited set
StartSecondPass ==
  /\ pc = "dfs" /\ pass = 1 /\ Len(stack) = 1 /\ Top.i > Len(Top.nbors)
  /\ pass' = 2
  /\ visited' = {}
  /\ stack' = <<RootFrame>>
  /\ UNCHANGED <<decl, slots, pc, err, ncalls, cset, slot_map, starting_slots, fst,
                 start_states, iter_order, results>>

\* the second _dfs has returned: fst.verify()
VerifyFst ==
  /\ pc = "dfs" /\ pass = 2 /\ Len(stack) = 1 /\ Top.i > Len(Top.nbors)
  /\ pass' = 0
  /\ IF Verify(fst)
     THEN /\ pc' = "rmepsilon"
          /\ stack' = <<>>
          /\ UNCHANGED <<err, results>>
     ELSE Raise("FST malformed")
  /\ UNCHANGED <<decl, slots, ncalls, cset, slot_map, starting_slots, fst,
                 start_states, visited, iter_order>>

\* fst.rmepsilon()
RemoveEpsilons ==
  /\ pc = "rmepsilon"
  /\ fst' = RmEpsilon(fst)
  /\ pc' = "optimize"
  /\ UNCHANGED <<decl, slots, err, ncalls, cset, slot_map, starting_slots,
                 start_states, pass, visited, stack, iter_order, results>>

\* the determinism test, fst.optimize() when it passes, and the return
OptimizeAndReturn ==
  /\ pc = "optimize"
  /\ fst' = IF ShouldOptimize(fst) THEN Optimize(fst) ELSE fst
  /\ results' = Append(results, Returned(fst'))
  /\ pc' = "idle"
  /\ UNCHANGED <<decl, slots, err, ncalls, cset, slot_map, starting_slots,
                 start_states, pass, visited, stack, iter_order>>

Next ==
  \/ Construct
  \/ FirstCompile
  \/ first_visit
  \/ second_pass
  \/ revisit
  \/ finish
  \/ StartSecondPass
  \/ VerifyFst
  \/ RemoveEpsilons
  \/ OptimizeAndReturn

\* a caller that constructs its slots and compiles them
Spec == Init /\ [][Next]_vars

\* the caller's lexicon is a StemGuesser given by a regular expression
InitGuesser ==
  /\ decl \in GuesserLexicons
  /\ slots = <<>>
  /\ pc = "construct"
  /\ err = ""
  /\ ncalls = 0
  /\ cset = {}
  /\ slot_map = <<>>
  /\ starting_slots = <<>>
  /\ fst = EmptyFst
  /\ start_states = <<>>
  /\ pass = 0
  /\ visited = {}
  /\ stack = <<>>
  /\ iter_order = <<>>
  /\ results = <<>>

\* a caller that constructs a StemGuesser and compiles it
SpecGuesser == InitGuesser /\ [][Next]_vars

\* a caller that gives a slot the name 'start'
InitReserved ==
  /\ decl \in ReservedLexicons
  /\ slots = <<>>
  /\ pc = "construct"
  /\ err = ""
  /\ ncalls = 0
  /\ cset = {}
  /\ slot_map = <<>>
  /\ starting_slots = <<>>
  /\ fst = EmptyFst
  /\ start_states = <<>>
  /\ pass = 0
  /\ visited = {}
  /\ stack = <<>>
  /\ iter_order = <<>>
  /\ results = <<>>

SpecReserved == InitReserved /\ [][Next]_vars

\* the steps of the caller and of the two traversals
Traversal ==
  \/ Construct
  \/ FirstCompile
  \/ first_visit
  \/ second_pass
  \/ revisit
  \/ finish
  \/ StartSecondPass
  \/ VerifyFst

\* fst.rmepsilon() or fst.optimize() comes back to compile
LibraryCallReturns ==
  \/ pc = "rmepsilon" /\ pc' = "optimize"
  \/ pc = "optimize" /\ pc' = "idle"

\* compile is sequential code: as long as a step is possible, one is taken
FairSpec == Spec /\ WF_vars(Traversal) /\ WF_pc(LibraryCallReturns)

NextReuse ==
  \/ Next
  \/ CompileAgain

\* a caller that goes on to compile slot objects it has compiled before
SpecReuse == Init /\ [][NextReuse]_vars

-----------------------------------------------------------------------------
(* compile as a function of the slots and of the enumeration orders: keys is *)
(* the order of starting_slots.keys(), ord gives list(conts) for every set   *)
(* of names                                                                  *)

\* neighbors(vertex) under these orders
NeighborsIn(v, keys, ord) ==
  IF v = "start" THEN keys
  ELSE IF v \in DOMAIN slot_map THEN ord[Conts(slots[slot_map[v]])]
  ELSE <<>>

\* the vertices in the order _dfs visits them for the first time
RECURSIVE DfsVisit(_, _, _, _), DfsEach(_, _, _, _)
DfsVisit(v, seen, keys, ord) ==
  IF v \in Range(seen) THEN seen
  ELSE DfsEach(NeighborsIn(v, keys, ord), Append(seen, v), keys, ord)

DfsEach(nbors, seen, keys, ord) ==
  IF nbors = <<>> THEN seen
  ELSE DfsEach(Tail(nbors), DfsVisit(Head(nbors), seen, keys, ord), keys, ord)

\* a slot object as its constructor left it
AsConstructed(slot) == [slot EXCEPT !.final_states = <<>>]

\* the first pass over the vertices in visiting order: the automaton, the
\* entry vertices and the final vertices each slot records
RECURSIVE FirstPass(_, _)
FirstPass(order, acc) ==
  IF order = <<>> THEN acc
  ELSE LET v == Head(order)
           at == acc.fst.num_states
       IN IF v = "start"
          THEN FirstPass(Tail(order),
                         [fst |-> set_start(add_state(acc.fst), at),
                          entry |-> (v :> at) @@ acc.entry,
                          finals |-> acc.finals])
          ELSE LET made == MaterializeSlot(acc.fst, AsConstructed(slots[slot_map[v]]))
               IN FirstPass(Tail(order),
                            [fst |-> made.fst,
                             entry |-> (v :> at) @@ acc.entry,
                             finals |-> (v :> made.appended) @@ acc.finals])

\* the second pass over the vertices in the same order
RECURSIVE SecondPass(_, _, _, _, _)
SecondPass(order, f, entry, finals, keys) ==
  IF order = <<>> THEN f
  ELSE LET v == Head(order)
       IN IF v = "start"
          THEN SecondPass(Tail(order), StartArcs(f, entry, keys), entry, finals, keys)
          ELSE SecondPass(Tail(order),
                          ApplySteps(f, entry,
                                     SlotSteps([slots[slot_map[v]] EXCEPT
                                                  !.final_states = finals[v]])),
                          entry, finals, keys)

\* what compile gives for freshly constructed slots under these orders
CompileFresh(keys, ord) ==
  IF keys = <<>> THEN Raised("need at least 1 slot to be a starting slot")
  ELSE LET order == DfsVisit("start", <<>>, keys, ord)
       IN IF \E k \in DOMAIN order : order[k] # "start" /\ order[k] \notin DOMAIN slot_map
          THEN Raised("KeyError")
          ELSE LET one == FirstPass(order, [fst |-> EmptyFst, entry |-> <<>>, finals |-> <<>>])
                   two == SecondPass(order, one.fst, one.entry, one.finals, keys)
               IN IF Verify(two) THEN Returned(Finalize(two)) ELSE Raised("FST malformed")

-----------------------------------------------------------------------------
(* What an automaton accepts, and what a lexicon describes.  Both are       *)
(* enumerated up to MaxLen symbols of input and of output.  A walk is        *)
(* [at, in, out, w, trail]: where it stands, what it has read and written,   *)
(* its weight when weights are kept, and the arcs / rules it took when the   *)
(* trail is kept.                                                            *)

AddLabel(s, label) == IF label = Epsilon THEN s ELSE Append(s, label)

InBounds(c, keepW) ==
  /\ Len(c.in) <= MaxLen
  /\ Len(c.out) <= MaxLen
  /\ Len(c.trail) <= 4 * MaxLen
  /\ keepW => c.w <= MaxWeight

\* the walks that extend walk c by one arc of f
ArcSteps(f, c, keepW, keepTrail) ==
  {[at |-> f.arcs[k].nextstate,
    in |-> AddLabel(c.in, f.arcs[k].ilabel),
    out |-> AddLabel(c.out, f.arcs[k].olabel),
    w |-> IF keepW THEN c.w + f.arcs[k].weight ELSE 0,
    trail |-> IF keepTrail THEN Append(c.trail, k) ELSE <<>>] :
     k \in {j \in DOMAIN f.arcs : f.arcs[j].src = c.at}}

RECURSIVE GrowWalks(_, _, _, _, _)
GrowWalks(f, frontier, seen, keepW, keepTrail) ==
  IF frontier = {} THEN seen
  ELSE LET next == {d \in UNION {ArcSteps(f, c, keepW, keepTrail) : c \in frontier} :
                      InBounds(d, keepW)} \ seen
       IN GrowWalks(f, next, seen \cup next, keepW, keepTrail)

Walks(f, keepW, keepTrail) ==
  LET first == IF ValidStateId(f, f.start)
               THEN {[at |-> f.start, in |-> <<>>, out |-> <<>>, w |-> 0, trail |-> <<>>]}
               ELSE {}
  IN GrowWalks(f, first, first, keepW, keepTrail)

\* the accepting walks, the final weight added
Accepted(f, keepW, keepTrail) ==
  {d \in {[in |-> c.in, out |-> c.out, trail |-> c.trail,
           w |-> IF keepW THEN c.w + f.final[c.at] ELSE 0] :
            c \in {x \in Walks(f, keepW, keepTrail) : x.at \in DOMAIN f.final}} :
     keepW => d.w <= MaxWeight}

\* the input/output pairs f accepts
Pairs(f) == {<<c.in, c.out>> : c \in Accepted(f, FALSE, FALSE)}

\* the input/output/weight triples of the accepting paths of f
Triples(f) == {<<c.in, c.out, c.w>> : c \in Accepted(f, TRUE, FALSE)}

\* the accepting paths of f, one record each
Paths(f) == Accepted(f, FALSE, TRUE)

PathWeight(f, trail) ==
  SumSeq([k \in DOMAIN trail |-> f.arcs[trail[k]].weight])
  + f.final[f.arcs[trail[Len(trail)]].nextstate]

\* the analyses of f as a multiset: how many accepting paths give each
\* input/output/weight triple
Analyses(f) ==
  LET ps == {[in |-> c.in, out |-> c.out, trail |-> c.trail,
              w |-> IF c.trail = <<>> THEN f.final[f.start] ELSE PathWeight(f, c.trail)] :
               c \in Paths(f)}
      ts == {<<c.in, c.out, c.w>> : c \in ps}
  IN [t \in ts |-> Cardinality({c \in ps : <<c.in, c.out, c.w>> = t})]

\* the lexicon of a compile call: its slot set through slot_map
SlotNamed(n) == slots[slot_map[n]]

\* the walks that extend walk c, standing at the entry of a slot, by one rule
\* of that slot and one entry of the rule's continuation list; at = None once
\* the Terminal continuation is taken
RuleSteps(c, keepW, keepTrail) ==
  LET slot == SlotNamed(c.at)
      step(k, j) ==
        [at |-> ContClasses(slot.rules[k])[j][1],
         in |-> c.in \o Lower(slot.rules[k]),
         out |-> c.out \o Upper(slot.rules[k]),
         w |-> IF keepW
               THEN c.w + RuleWeight(slot.rules[k]) + ContClasses(slot.rules[k])[j][2]
               ELSE 0,
         trail |-> IF keepTrail THEN Append(c.trail, <<c.at, k>>) ELSE <<>>]
  IN UNION {{step(k, j) : j \in DOMAIN ContClasses(slot.rules[k])} :
              k \in DOMAIN slot.rules}

RECURSIVE GrowRuleWalks(_, _, _, _)
GrowRuleWalks(frontier, seen, keepW, keepTrail) ==
  IF frontier = {} THEN seen
  ELSE LET open == {c \in frontier : c.at \in DOMAIN slot_map}
           next == {d \in UNION {RuleSteps(c, keepW, keepTrail) : c \in open} :
                      InBounds(d, keepW)} \ seen
       IN GrowRuleWalks(next, seen \cup next, keepW, keepTrail)

\* a word begins at the entry of a starting slot, at no cost
RuleWalks(keepW, keepTrail) ==
  LET first == {[at |-> n, in |-> <<>>, out |-> <<>>, w |-> 0, trail |-> <<>>] :
                  n \in Range(starting_slots)}
  IN GrowRuleWalks(first, first, keepW, keepTrail)

\* the rule sequences that end with the Terminal continuation
Described(keepW, keepTrail) ==
  {c \in RuleWalks(keepW, keepTrail) : c.at = None}

\* the input/output pairs the lexicon describes
RulePairs == {<<c.in, c.out>> : c \in Described(FALSE, FALSE)}

\* the input/output/weight triples the lexicon describes
RuleTriples == {<<c.in, c.out, c.w>> : c \in Described(TRUE, FALSE)}

\* the legal rule sequences, one record for each
RuleSequences == Described(FALSE, TRUE)

-----------------------------------------------------------------------------
(* The claims *)

NoStartingSlot == "need at least 1 slot to be a starting slot"

\* C1: when no slot of the compiled set has start=True, the call raises
\* 'need at least 1 slot to be a starting slot', returns no automaton, and
\* has materialized nothing: the master automaton has no vertex, no slot has
\* an entry vertex and no slot object has recorded a final vertex.
C1_NoStartRaises ==
  (ncalls >= 1 /\ \A k \in cset : ~slots[k].start) =>
    /\ pc = "idle"
    /\ Len(results) = 1
    /\ ~results[1].ok
    /\ results[1].err = NoStartingSlot
    /\ fst = EmptyFst
    /\ start_states = <<>>
    /\ \A k \in cset : slots[k].final_states = <<>>

\* a set without a start slot, one of whose slots has no rule at all, has
\* been compiled
C1_Witness ==
  /\ ncalls = 1
  /\ \A k \in cset : ~slots[k].start
  /\ \E k \in cset : slots[k].rules = <<>>
  /\ \E k \in cset : slots[k].rules # <<>>
  /\ results # <<>>
  /\ results[1].err = NoStartingSlot

\* C2: a declaration one of whose rules has an empty continuation list
\* (for a StemGuesser: whose continuation list is empty) never becomes a
\* slot object, whatever the position of the rule; its construction fails
\* with the constructor's error.
C2_EmptyContinuationsRefused ==
  \A k \in DOMAIN decl :
    LET d == decl[k]
        empty == IF d.kind = "StemGuesser"
                 THEN d.cont_classes = <<>>
                 ELSE \E j \in DOMAIN d.rules : d.rules[j][3] = <<>>
    IN empty =>
         /\ Len(slots) < k
         /\ (Len(slots) = k - 1 /\ pc # "construct") =>
              /\ pc = "failed"
              /\ err = NoContinuationClass

\* the construction of a slot whose second rule has no continuation has
\* failed
C2_Witness ==
  /\ pc = "failed"
  /\ LET d == decl[Len(slots) + 1]
     IN /\ d.kind = "Slot"
        /\ Len(d.rules) = 2
        /\ d.rules[1][3] # <<>>
        /\ d.rules[2][3] = <<>>

\* the first compile call has come back, with an automaton or an exception
FirstCallOver == pc = "idle" /\ ncalls >= 1 /\ Len(results) >= 1

\* every compiled slot is a regular Slot
RegularSlots == \A k \in cset : slots[k].kind = "Slot"

\* every continuation class named by a compiled slot is the name of one
NamesPresent ==
  \A k \in cset : \A j \in DOMAIN slots[k].rules :
    \A i \in DOMAIN slots[k].rules[j][3] :
      slots[k].rules[j][3][i][1] \in {None} \cup {slots[n].name : n \in cset}

\* C3: for regular slots with a start slot and every continuation name
\* present, compile returns an automaton that maps input s to output o
\* exactly when a rule sequence from a starting slot to a rule with Terminal
\* among its continuations has lower strings concatenating to s and upper
\* strings concatenating to o (for all s, o of at most MaxLen symbols).
C3_LanguageIsRuleSequences ==
  (FirstCallOver /\ RegularSlots /\ NamesPresent /\ (\E k \in cset : slots[k].start)) =>
    /\ results[1].ok
    /\ Pairs(results[1].fst) = RulePairs

\* a compiled lexicon with a non-starting slot that ends words which a
\* starting slot begins: the automaton maps lower to upper, not upper to
\* lower, and does not accept the non-starting slot's rule on its own
C3_Witness ==
  /\ FirstCallOver /\ RegularSlots /\ NamesPresent
  /\ results[1].ok
  /\ <<<<98, 100>>, <<97, 99>>>> \in Pairs(results[1].fst)
  /\ <<<<97, 99>>, <<98, 100>>>> \notin Pairs(results[1].fst)
  /\ <<<<100>>, <<99>>>> \notin Pairs(results[1].fst)
  /\ \E k \in cset :
       ~slots[k].start /\ slots[k].rules # <<>> /\ slots[k].rules[1][2] = <<100>>

PathCount(f, s, o) == Cardinality({c \in Paths(f) : c.in = s /\ c.out = o})

\* how many legal rule sequences read s and write o
SequenceCount(s, o) == Cardinality({c \in RuleSequences : c.in = s /\ c.out = o})

\* C5: the compiled automaton has one accepting path for each legal rule
\* sequence: for every input s and output o, as many accepting paths read s
\* and write o as there are rule sequences doing so.
C5_OnePathPerRuleSequence ==
  (FirstCallOver /\ RegularSlots /\ results[1].ok) =>
    \A p \in RulePairs \cup Pairs(results[1].fst) :
      PathCount(results[1].fst, p[1], p[2]) = SequenceCount(p[1], p[2])

\* the rule a trail entry <<slot name, position>> names
TrailRule(e) == SlotNamed(e[1]).rules[e[2]]

\* what a sequence of rules reads and what it writes
TrailIn(trail) == Flatten([k \in DOMAIN trail |-> Lower(TrailRule(trail[k]))])

TrailOut(trail) == Flatten([k \in DOMAIN trail |-> Upper(TrailRule(trail[k]))])

\* the legal rule sequences that come back to a slot: [u, v, t] where the
\* sequence is u v t and v leads from a slot back to the same slot
CyclicSequences ==
  {[u |-> SubSeq(c.trail, 1, i - 1), v |-> SubSeq(c.trail, i, j - 1),
    t |-> SubSeq(c.trail, j, Len(c.trail))] :
     <<c, i, j>> \in {x \in RuleSequences \X (1..(4 * MaxLen)) \X (1..(4 * MaxLen)) :
                        /\ x[2] < x[3] /\ x[3] <= Len(x[1].trail)
                        /\ x[1].trail[x[2]][1] = x[1].trail[x[3]][1]}}

\* a vertex of f lies on a cycle
HasCycle(f) ==
  \E q \in States(f) : q \in Forward(ArcsOf(f), Successors(ArcsOf(f), {q}))

C7_CompileTerminates ==
  /\ []((pc = "dfs" /\ NamesPresent) =>
          <>(pc = "idle" /\ ncalls >= 1 /\ Len(results) = ncalls /\ results[ncalls].ok))
  /\ [][(pc = "dfs" /\ Len(stack') > Len(stack)) =>
          (Vertex \notin visited /\ visited' = visited \cup {Vertex})]_vars

\* compile has returned for a lexicon whose slots c2 and c3 continue to each
\* other, after both passes went round the cycle
C7_Witness ==
  /\ FirstCallOver /\ NamesPresent /\ results[1].ok
  /\ "c3" \in Conts(slots[2])
  /\ "c2" \in Conts(slots[3])
  /\ visited = {"start", "c1", "c2", "c3"}

\* the slot names a slot's rules give as continuations
NamedBy(slot) ==
  UNION {{slot.rules[j][3][i][1] : i \in DOMAIN slot.rules[j][3]} :
           j \in DOMAIN slot.rules} \ {None}

\* the names reachable from a set of names through continuation classes
RECURSIVE ReachableFrom(_)
ReachableFrom(S) ==
  LET T == S \cup UNION {NamedBy(slots[slot_map[n]]) : n \in S \cap DOMAIN slot_map}
  IN IF T = S THEN S ELSE ReachableFrom(T)

\* the slots reachable from the starting slots of the compiled set
ReachableSlots ==
  ReachableFrom({slots[k].name : k \in {j \in cset : slots[j].start}})

\* the vertices one copy of a slot takes: its entry vertex and, for every
\* rule, the chain of the rule; for a StemGuesser the vertices of its acceptor
VerticesOf(slot) ==
  IF slot.kind = "StemGuesser" THEN slot.fst.num_states
  ELSE 1 + SumSeq([k \in DOMAIN slot.rules |->
                     Max(Len(slot.rules[k][1]), Len(slot.rules[k][2])) + 1])

\* C8: in the automaton compile has built (both passes over, before
\* finalization) exactly the slots reachable from a starting slot have an
\* entry vertex, each its own; the automaton has the virtual root and one
\* copy of every reachable slot and nothing else; a reachable regular slot
\* has recorded one final vertex per rule and has one arc per rule leaving
\* its entry vertex; an unreachable slot has recorded nothing.  And a call
\* whose reachable names are all present returns an automaton, whatever the
\* unreachable slots are.
C8_ReachableSlotsOnce ==
  /\ pc = "rmepsilon" =>
       /\ DOMAIN start_states = ReachableSlots \cup {"start"}
       /\ \A m, n \in DOMAIN start_states : start_states[m] = start_states[n] => m = n
       /\ fst.num_states =
            1 + SumSeq([k \in 1..Len(slots) |->
                          IF k \in cset /\ slots[k].name \in ReachableSlots
                          THEN VerticesOf(slots[k]) ELSE 0])
       /\ \A k \in cset :
            IF slots[k].name \notin ReachableSlots
            THEN slots[k].final_states = <<>>
            ELSE slots[k].kind = "Slot" =>
                   /\ Len(slots[k].final_states) = Len(slots[k].rules)
                   /\ Cardinality({j \in DOMAIN fst.arcs :
                                     fst.arcs[j].src = start_states[slots[k].name]})
                        = Len(slots[k].rules)
  /\ (FirstCallOver /\ (\E k \in cset : slots[k].start)
        /\ ReachableSlots \subseteq {slots[k].name : k \in cset}) => results[1].ok

\* both passes are over for a lexicon whose slot c3 is named by a rule of c1
\* and by a rule of c2 and lies on the cycle c2, c3
C8_Witness ==
  /\ pc = "rmepsilon"
  /\ \E j \in DOMAIN slots[1].rules : slots[1].rules[j][3] = <<To("c3", 0)>>
  /\ slots[2].rules[1][3] = <<To("c3", 2)>>
  /\ "c2" \in Conts(slots[3])
  /\ DOMAIN start_states = {"start", "c1", "c2", "c3"}

\* the names of the compiled slots and the names they give as continuations
KnownNames ==
  {slots[k].name : k \in cset} \cup UNION {NamedBy(slots[k]) : k \in cset}

\* list(conts) when sets enumerate their elements in the order of rank
OrderBy(rank) ==
  [c \in SUBSET KnownNames |-> SelectSeq(rank, LAMBDA n : n \in c)]

\* C9: what the first compile call gave is what compile gives under the
\* enumeration orders the call met, and under every other order of the
\* starting slots and of the neighbours the outcome is the same: the same
\* exception, or an automaton with the same analyses (input, output and
\* weight of every accepting path, with multiplicity).
C9_OrderIndependent ==
  FirstCallOver =>
    /\ (results[1].ok \/ results[1].err = "KeyError")
         => results[1] = CompileFresh(starting_slots,
                                      [c \in SUBSET KnownNames |->
                                         IF c \in DOMAIN iter_order THEN iter_order[c]
                                         ELSE <<>>])
    /\ \A keys \in Perms({slots[k].name : k \in {j \in cset : slots[j].start}}) :
         \A rank \in Perms(KnownNames) :
           LET other == CompileFresh(keys, OrderBy(rank))
           IN /\ other.ok = results[1].ok
              /\ other.err = results[1].err
              /\ other.ok => Analyses(other.fst) = Analyses(results[1].fst)

\* a set with two starting slots has been compiled with the later declared
\* slot c2 enumerated first; c1 names c3 before c3 is declared
C9_Witness ==
  /\ FirstCallOver /\ results[1].ok
  /\ starting_slots = <<"c2", "c1">>
  /\ "c3" \in Conts(slots[1])
  /\ Pairs(results[1].fst) # {}

\* C10: every compile call, also one on slot objects that an earlier call
\* has seen, gives what compile gives for freshly constructed equal slots
\* under the same enumeration orders: the same exception, or an automaton
\* with the same multiset of analyses.
C10_CompileIsPure ==
  (pc = "idle" /\ ncalls >= 1 /\ Len(results) = ncalls) =>
    LET fresh == CompileFresh(starting_slots,
                              [c \in SUBSET KnownNames |->
                                 IF c \in DOMAIN iter_order THEN iter_order[c]
                                 ELSE SetToSeq(c)])
    IN /\ results[ncalls].ok = fresh.ok
       /\ results[ncalls].ok => Analyses(results[ncalls].fst) = Analyses(fresh.fst)


\* the names in the continuation list of a rule
ContNames(rule) == {ContClasses(rule)[i][1] : i \in DOMAIN ContClasses(rule)}

\* the compiled slots declared with start=True
StartingSlots == {k \in cset : slots[k].start}

\* the word made of rule r followed by rule q
TwoRules(r, q) == <<Lower(r) \o Lower(q), Upper(r) \o Upper(q)>>

\* C11: starting slots are alternatives. The word made of a rule of a
\* starting slot that has Terminal among its continuations, followed by a
\* rule of another starting slot that the first rule does not name, is
\* accepted only when some legal rule sequence describes it; and with several
\* starting slots every accepted word is described by a sequence that begins
\* in one of them, a word of each being accepted.
C11_StartingSlotsAreAlternatives ==
  (FirstCallOver /\ RegularSlots /\ NamesPresent /\ results[1].ok
     /\ Cardinality(StartingSlots) >= 2) =>
    LET accepted == Pairs(results[1].fst)
    IN /\ \A m \in StartingSlots : \A n \in StartingSlots \ {m} :
            \A i \in DOMAIN slots[m].rules : \A j \in DOMAIN slots[n].rules :
              LET r == slots[m].rules[i]
                  q == slots[n].rules[j]
              IN (None \in ContNames(r) /\ slots[n].name \notin ContNames(r)
                    /\ TwoRules(r, q) \in accepted)
                   => TwoRules(r, q) \in RulePairs
       /\ accepted \subseteq RulePairs
       /\ \A m \in StartingSlots : \A i \in DOMAIN slots[m].rules :
            None \in ContNames(slots[m].rules[i]) =>
              <<Lower(slots[m].rules[i]), Upper(slots[m].rules[i])>> \in accepted

\* two starting slots have been compiled: the word of the first, which is
\* terminal, and a word of the second are accepted, the first followed by
\* the rule of the second is not
C11_Witness ==
  /\ FirstCallOver /\ RegularSlots /\ NamesPresent /\ results[1].ok
  /\ Cardinality(StartingSlots) = 2
  /\ <<<<98>>, <<97>>>> \in Pairs(results[1].fst)
  /\ <<<<100, 100>>, <<99, 99>>>> \in Pairs(results[1].fst)
  /\ <<<<98, 100>>, <<97, 99>>>> \notin Pairs(results[1].fst)
  /\ <<<<98, 100, 100>>, <<97, 99, 99>>>> \notin Pairs(results[1].fst)

\* the arcs that leave vertex s of automaton f, as <<destination, weight>>
LeavingArcs(f, s) ==
  {<<f.arcs[a].nextstate, f.arcs[a].weight>> :
     a \in {b \in DOMAIN f.arcs : f.arcs[b].src = s}}

\* the wiring that the continuation list of a rule asks for
AskedArcs(rule) ==
  {<<start_states[ContClasses(rule)[i][1]], ContClasses(rule)[i][2]>> :
     i \in {j \in DOMAIN ContClasses(rule) : ContClasses(rule)[j][1] # None}}

\* C12: continuations are attached per rule. In the automaton as built, the
\* arcs that leave the final vertex of rule i of a regular slot are the
\* epsilon arcs to the entries of the slots that rule i itself names, with
\* the weights it gives, and the vertex is final exactly when rule i has
\* Terminal; in the automaton returned, rule i of a starting slot followed
\* by a rule of a slot that rule i does not name (a sibling rule included)
\* is accepted only when some legal rule sequence describes the word.
C12_ContinuationsPerRule ==
  /\ (pc = "rmepsilon" /\ ncalls = 1 /\ RegularSlots) =>
       \A k \in cset : slots[k].name \in DOMAIN start_states =>
         /\ Len(slots[k].final_states) = Len(slots[k].rules)
         /\ \A i \in DOMAIN slots[k].rules :
              LET s == slots[k].final_states[i]
              IN /\ LeavingArcs(fst, s) = AskedArcs(slots[k].rules[i])
                 /\ \A a \in DOMAIN fst.arcs :
                      fst.arcs[a].src = s =>
                        fst.arcs[a].ilabel = Epsilon /\ fst.arcs[a].olabel = Epsilon
                 /\ (s \in DOMAIN fst.final) <=> (None \in ContNames(slots[k].rules[i]))
  /\ (FirstCallOver /\ RegularSlots /\ NamesPresent /\ results[1].ok) =>
       LET accepted == Pairs(results[1].fst)
       IN \A m \in StartingSlots : \A n \in cset :
            \A i \in DOMAIN slots[m].rules : \A j \in DOMAIN slots[n].rules :
              LET r == slots[m].rules[i]
                  q == slots[n].rules[j]
              IN (slots[n].name \notin ContNames(r) /\ TwoRules(r, q) \in accepted)
                   => TwoRules(r, q) \in RulePairs

\* a slot with a terminal rule and a rule that goes on to another slot has
\* been compiled: each rule is accepted with its own continuation, and the
\* first rule followed by the continuation of the second is not
C12_Witness ==
  /\ FirstCallOver /\ RegularSlots /\ NamesPresent /\ results[1].ok
  /\ \E m \in StartingSlots :
       /\ Len(slots[m].rules) = 2
       /\ ContNames(slots[m].rules[1]) = {None}
       /\ ContNames(slots[m].rules[2]) = {"c3"}
  /\ <<<<98>>, <<97>>>> \in Pairs(results[1].fst)
  /\ <<<<100>>, <<99>>>> \in Pairs(results[1].fst)
  /\ <<<<98, 100>>, <<97, 99>>>> \notin Pairs(results[1].fst)


\* the weights that the continuation list of a rule gives to continuation n
ContWeights(rule, n) ==
  {ContClasses(rule)[i][2] : i \in {j \in DOMAIN ContClasses(rule) : ContClasses(rule)[j][1] = n}}

\* a rule that lists both Terminal and a slot
Mixed(rule) == None \in ContNames(rule) /\ ContNames(rule) # {None}

\* a rule that lists Terminal once
OneTerminal(rule) ==
  Cardinality({j \in DOMAIN ContClasses(rule) : ContClasses(rule)[j][1] = None}) = 1

\* C13: a rule of a starting slot that lists both Terminal and named slots,
\* in either order, is terminal and non-terminal at once: the word that ends
\* right after the rule is an analysis that weighs the rule weight plus the
\* Terminal weight, and the word that goes on with a terminal rule of a named
\* slot is an analysis that weighs the sum along that sequence.
C13_TerminalAndContinuing ==
  (FirstCallOver /\ RegularSlots /\ NamesPresent /\ results[1].ok) =>
    LET analyses == Triples(results[1].fst)
    IN \A m \in StartingSlots : \A i \in DOMAIN slots[m].rules :
         LET r == slots[m].rules[i]
         IN (Mixed(r) /\ OneTerminal(r)) =>
              /\ \A tw \in ContWeights(r, None) :
                   <<Lower(r), Upper(r), RuleWeight(r) + tw>> \in analyses
              /\ \A n \in cset : \A cw \in ContWeights(r, slots[n].name) :
                   \A j \in DOMAIN slots[n].rules :
                     LET q == slots[n].rules[j]
                     IN \A qw \in ContWeights(q, None) :
                          OneTerminal(q) =>
                          <<TwoRules(r, q)[1], TwoRules(r, q)[2],
                            RuleWeight(r) + cw + RuleWeight(q) + qw>> \in analyses


\* C15: the step that follows epsilon removal returns the optimized
\* automaton when the automaton it finds has no vertex with two arcs of one
\* input label and no vertex with two arcs of one output label, and returns
\* the automaton as it finds it otherwise.
C15_OptimizeIffDeterministic ==
  [][pc = "optimize" =>
       /\ fst' = IF IDeterministic(fst) /\ ODeterministic(fst)
                 THEN Optimize(fst) ELSE fst
       /\ results' = Append(results, Returned(fst'))]_vars

\* an automaton has been returned that is input-deterministic and not
\* output-deterministic, and that optimize would have made smaller
C15_Witness ==
  /\ FirstCallOver /\ results[1].ok
  /\ IDeterministic(results[1].fst)
  /\ ~ODeterministic(results[1].fst)
  /\ Optimize(results[1].fst) # results[1].fst


\* a slot reachable from a starting slot names a continuation class that is
\* not the name of a compiled slot
MissingReachable ==
  /\ StartingSlots # {}
  /\ ReachableSlots \ {slots[k].name : k \in cset} # {}

\* C16 as stated: when a reachable rule names a continuation slot that is not
\* in the input set, compile skips the name: it raises nothing and returns an
\* automaton.
C16_UnresolvedNameSkipped ==
  (FirstCallOver /\ MissingReachable) => results[1].ok

\* C16, amended: when a reachable rule names a continuation slot that is not
\* in the input set, the first traversal reaches the name and the lookup
\* slot_map[vertex] raises KeyError: no automaton is returned, and no
\* continuation arc has been added to the automaton under construction.
C16_UnresolvedNameRaises ==
  (FirstCallOver /\ ncalls = 1 /\ MissingReachable) =>
    /\ ~results[1].ok
    /\ results[1].err = "KeyError"
    /\ Len(results) = 1
    /\ pass = 1
    /\ DOMAIN fst.final = {}

\* compile has raised for a lexicon whose slot c3, reached from the starting
\* slot, names the undeclared slot c4
C16_Witness ==
  /\ FirstCallOver /\ ncalls = 1
  /\ "c4" \in ReachableSlots
  /\ "c4" \in NamedBy(slots[3])
  /\ "c3" \in DOMAIN start_states
  /\ results[1].err = "KeyError"


\* the strings of at most MaxLen symbols that an acceptor accepts
Language(fsa) == {p[1] : p \in {q \in Pairs(fsa) : q[1] = q[2]}}

\* the walks that extend walk c, standing at the entry of a slot, by one
\* passage through the slot: a rule of a regular Slot, or a string of the
\* acceptor of a StemGuesser, read and written unchanged, and then one entry
\* of the continuation list that goes with it
LexiconSteps(c) ==
  LET slot == SlotNamed(c.at)
  IN IF slot.kind = "StemGuesser"
     THEN {[at |-> ContClasses(slot.rules[1])[j][1], in |-> c.in \o u, out |-> c.out \o u] :
             u \in Language(slot.fst), j \in DOMAIN ContClasses(slot.rules[1])}
     ELSE UNION {{[at |-> ContClasses(slot.rules[k])[j][1],
                   in |-> c.in \o Lower(slot.rules[k]),
                   out |-> c.out \o Upper(slot.rules[k])] :
                    j \in DOMAIN ContClasses(slot.rules[k])} : k \in DOMAIN slot.rules}

RECURSIVE GrowLexiconWalks(_, _)
GrowLexiconWalks(frontier, seen) ==
  IF frontier = {} THEN seen
  ELSE LET open == {c \in frontier : c.at \in DOMAIN slot_map}
           next == {d \in UNION {LexiconSteps(c) : c \in open} :
                      Len(d.in) <= MaxLen /\ Len(d.out) <= MaxLen} \ seen
       IN GrowLexiconWalks(next, seen \cup next)

\* the input/output pairs that a lexicon with StemGuessers describes
LexiconPairs ==
  LET first == {[at |-> n, in |-> <<>>, out |-> <<>>] : n \in Range(starting_slots)}
  IN {<<c.in, c.out>> : c \in {d \in GrowLexiconWalks(first, first) : d.at = None}}

\* a StemGuesser is among the slots a starting slot reaches
GuesserReached ==
  \E k \in cset : slots[k].kind = "StemGuesser" /\ slots[k].name \in ReachableSlots

\* C14: a StemGuesser spliced into the lexicon, as a starting slot, between
\* two slots or last, behaves as an ordinary class: the automaton accepts
\* exactly the words in which the segment read at the StemGuesser is a
\* string of its acceptor, written unchanged, and in which what follows is
\* an entry of its continuation list, whichever accepting vertex of the
\* acceptor the segment ends in: in the automaton as built every accepting
\* vertex of the copy has the arcs the continuation list asks for.
C14_StemGuesserAsClass ==
  /\ (FirstCallOver /\ NamesPresent /\ results[1].ok /\ GuesserReached) =>
       Pairs(results[1].fst) = LexiconPairs
  /\ (pc = "rmepsilon" /\ ncalls = 1) =>
       \A k \in cset :
         (slots[k].kind = "StemGuesser" /\ slots[k].name \in DOMAIN start_states) =>
           /\ Len(slots[k].final_states) = Cardinality(DOMAIN slots[k].fst.final)
           /\ \A i \in DOMAIN slots[k].final_states :
                LET s == slots[k].final_states[i]
                IN /\ AskedArcs(slots[k].rules[1]) \subseteq LeavingArcs(fst, s)
                   /\ (s \in DOMAIN fst.final) <=> (None \in ContNames(slots[k].rules[1]))

\* a starting StemGuesser whose acceptor has two accepting vertices has been
\* compiled: a word is accepted with a segment that ends in either, the
\* segment written as read, and is not without a segment or with one that
\* the acceptor refuses
C14_Witness ==
  /\ FirstCallOver /\ NamesPresent /\ results[1].ok
  /\ slots[2].kind = "StemGuesser" /\ slots[2].start
  /\ Cardinality(DOMAIN slots[2].fst.final) = 2
  /\ <<<<102, 100>>, <<102, 99>>>> \in Pairs(results[1].fst)
  /\ <<<<102, 102, 100>>, <<102, 102, 99>>>> \in Pairs(results[1].fst)
  /\ <<<<100>>, <<99>>>> \notin Pairs(results[1].fst)
  /\ <<<<102, 102>>, <<102, 102>>>> \notin Pairs(results[1].fst)


\* the brackets of a regular expression, in order
Brackets(regex) == SelectSeq(regex, LAMBDA ch : ch \in {"(", ")", "[", "]"})

\* a bracket string balances when taking out adjacent pairs '()' and '[]',
\* again and again, leaves nothing
RECURSIVE Cancel(_)
Cancel(b) ==
  LET pairs == {i \in 1..(Len(b) - 1) :
                  <<b[i], b[i + 1]>> \in {<<"(", ")">>, <<"[", "]">>}}
  IN IF pairs = {} THEN b
     ELSE LET i == CHOOSE j \in pairs : TRUE
          IN Cancel(SubSeq(b, 1, i - 1) \o SubSeq(b, i + 2, Len(b)))

Balanced(regex) == Cancel(Brackets(regex)) = <<>>

\* the constructor of the StemGuesser has been called and is over
GuesserConstructed == FromRegex(decl[1]) /\ pc # "construct"

\* C17: the construction of a StemGuesser whose regular expression has
\* brackets that do not balance (a closing bracket with none open, a closing
\* bracket of the other kind than the innermost open one, a bracket left
\* open) raises an error and leaves no StemGuesser object.
C17_UnbalancedRefused ==
  (FromRegex(decl[1]) /\ ~Balanced(decl[1].regex)) =>
    /\ slots = <<>>
    /\ pc \in {"construct", "failed"}
    /\ pc = "failed" =>
         err \in {"IndexError", UnmatchedParentheses, UnmatchedBrackets,
                  AlphabetRequired, EmptyQuantification}

\* the construction from '[V)' has raised 'Unmatched parentheses'
C17_Witness ==
  /\ GuesserConstructed
  /\ decl[1].regex = <<"[", "V", ")">>
  /\ pc = "failed"
  /\ err = UnmatchedParentheses
  /\ slots = <<>>

\* C18: the construction raises 'Empty quantification' whenever the first
\* character of the expression is '?', '*' or '+'; and when the scan arrives
\* at a quantifier at a later position, fst_stack holds a frame, so that the
\* quantifier has an acceptor to apply to.
C18_EmptyQuantification ==
  GuesserConstructed =>
    LET regex == decl[1].regex
    IN /\ (regex # <<>> /\ regex[1] \in Quantifiers) =>
            pc = "failed" /\ err = EmptyQuantification /\ slots = <<>>
       /\ \A i \in 2..Len(regex) :
            LET st == ScanBefore(ScanStart, regex, 1, i, decl[1].alphabet)
            IN (regex[i] \in Quantifiers /\ st.err = "") =>
                 /\ st.fst_stack # <<>>
                 /\ ScanChar(st, regex, i, decl[1].alphabet).err = ""

\* the construction from '+V*' has raised 'Empty quantification'
C18_Witness ==
  /\ GuesserConstructed
  /\ decl[1].regex = <<"+", "V", "*">>
  /\ pc = "failed"
  /\ err = EmptyQuantification

\* C19: a non-empty alphabet is required exactly when the expression holds
\* '.': with alphabet={} every expression that holds '.', at any position,
\* inside '()' or '[]' included, is refused, and no expression without '.'
\* is refused for the lack of an alphabet.
C19_SigmaNeedsAlphabet ==
  (GuesserConstructed /\ decl[1].alphabet = NoAlphabet) =>
    /\ "." \in Range(decl[1].regex) => pc = "failed"
    /\ "." \notin Range(decl[1].regex) => err # AlphabetRequired

\* what a sequence of symbols spells, in bytes
Spell(symbols) == Flatten([k \in DOMAIN symbols |-> [j \in DOMAIN symbols[k] |-> Ord(symbols[k][j])]])

\* the strings of at most MaxLen characters that are sequences of symbols of
\* the alphabet with at least two symbols of class V
AtLeastTwoVowels ==
  LET all == Symbols(NahuatlAlphabet)
      seqs == UNION {[1..n -> all] : n \in 0..MaxLen}
  IN {Spell(q) : q \in {r \in seqs :
                          /\ Len(Spell(r)) <= MaxLen
                          /\ Cardinality({k \in DOMAIN r : r[k] \in Range(NahuatlAlphabet.V)}) >= 2}}

\* C20: over the alphabet {C, V} the StemGuessers of '.*V.*V.*' and of
\* '[CV]*V[CV]*V[CV]*' accept the same strings, those with at least two
\* vowel symbols; compiled alone as a terminal starting slot, each gives an
\* automaton that maps exactly these strings, each to itself.
C20_BimoraicFormsAgree ==
  (GuesserConstructed /\ decl[1].regex \in {SigmaForm, ClassForm}
     /\ decl[1].alphabet = NahuatlAlphabet) =>
    /\ pc # "failed"
    /\ \A r \in {SigmaForm, ClassForm} :
         Language(slots[1].fst)
           = Language(StemGuesserInit(r, "g", <<To(None, 0)>>, NahuatlAlphabet, TRUE).obj.fst)
    /\ Language(slots[1].fst) = AtLeastTwoVowels
    /\ (FirstCallOver /\ ContNames(slots[1].rules[1]) = {None}) =>
         /\ results[1].ok
         /\ Pairs(results[1].fst) = {<<u, u>> : u \in AtLeastTwoVowels}

\* the StemGuesser of '.*V.*V.*' has been constructed and compiled: it
\* accepts 'aa' and 'ata' and refuses 'a' and 'ta'
C20_Witness ==
  /\ GuesserConstructed /\ FirstCallOver
  /\ decl[1].regex = SigmaForm
  /\ decl[1].alphabet = NahuatlAlphabet
  /\ {<<97, 97>>, <<97, 116, 97>>} \subseteq Language(slots[1].fst)
  /\ <<97>> \notin Language(slots[1].fst)
  /\ <<116, 97>> \notin Language(slots[1].fst)
  /\ <<<<97, 97>>, <<97, 97>>>> \in Pairs(results[1].fst)


-----------------------------------------------------------------------------
(* What a regular expression means, read as the grammar reads it: a          *)
(* sequence of atoms, each with the quantifiers that follow it.  A language  *)
(* is the set of its strings of at most MaxLen bytes.                        *)

Cat(L, M) == {w \in {u \o v : u \in L, v \in M} : Len(w) <= MaxLen}

RECURSIVE StarFrom(_, _)
StarFrom(L, acc) ==
  LET more == acc \cup Cat(acc, L) IN IF more = acc THEN acc ELSE StarFrom(L, more)

Star(L) == StarFrom(L, {<<>>})

\* the strings a single character stands for
CharLanguage(ch, alphabet) ==
  {w \in (IF ch \in DOMAIN alphabet
          THEN {[j \in DOMAIN sym |-> Ord(sym[j])] : sym \in Range(alphabet[ch])}
          ELSE {<<Ord(ch)>>}) : Len(w) <= MaxLen}

MetaChars == {"(", ")", "[", "]", ".", "?", "*", "+"}

\* the position of the first character ch of regex at or after i, 0 if none
FirstAt(regex, i, ch) ==
  IF \E j \in i..Len(regex) : regex[j] = ch
  THEN CHOOSE j \in i..Len(regex) : regex[j] = ch /\ \A k \in i..(j - 1) : regex[k] # ch
  ELSE 0

RECURSIVE CatAll(_)
CatAll(Ls) == IF Ls = <<>> THEN {<<>>} ELSE Cat(Head(Ls), CatAll(Tail(Ls)))

\* the atom that begins at position i: [lang, next]
AtomAt(regex, i, alphabet) ==
  LET ch == regex[i]
      j == FirstAt(regex, i, IF ch = "(" THEN ")" ELSE "]")
      inner == [k \in 1..(j - i - 1) |-> CharLanguage(regex[i + k], alphabet)]
  IN CASE ch = "(" -> [lang |-> CatAll(inner), next |-> j + 1]
       [] ch = "[" -> [lang |-> UNION Range(inner), next |-> j + 1]
       [] ch = "." -> [lang |-> UNION {CharLanguage(c, alphabet) : c \in DOMAIN alphabet},
                       next |-> i + 1]
       [] OTHER -> [lang |-> CharLanguage(ch, alphabet), next |-> i + 1]

\* the quantifiers that begin at position i applied to L: [lang, next]
RECURSIVE Quantified(_, _, _)
Quantified(regex, i, L) ==
  IF i > Len(regex) \/ regex[i] \notin Quantifiers THEN [lang |-> L, next |-> i]
  ELSE Quantified(regex, i + 1,
                  CASE regex[i] = "*" -> Star(L)
                    [] regex[i] = "+" -> Cat(L, Star(L))
                    [] regex[i] = "?" -> L \cup {<<>>})

\* the language of the expression from position i on
RECURSIVE Meaning(_, _, _)
Meaning(regex, i, alphabet) ==
  IF i > Len(regex) THEN {<<>>}
  ELSE LET atom == AtomAt(regex, i, alphabet)
           term == Quantified(regex, atom.next, atom.lang)
       IN Cat(term.lang, Meaning(regex, term.next, alphabet))

\* an expression of the grammar with flat groups: the groups are closed, not
\* empty and hold plain characters only, a quantifier follows an atom, and
\* '.' comes with an alphabet
RECURSIVE FlatFrom(_, _, _)
FlatFrom(regex, i, alphabet) ==
  IF i > Len(regex) THEN TRUE
  ELSE LET ch == regex[i]
           j == FirstAt(regex, i, IF ch = "(" THEN ")" ELSE "]")
       IN CASE ch \in {"(", "["} ->
                 /\ j > i + 1
                 /\ \A k \in (i + 1)..(j - 1) : regex[k] \notin MetaChars
                 /\ FlatFrom(regex, Quantified(regex, j + 1, {}).next, alphabet)
            [] ch \in {")", "]"} \cup Quantifiers -> FALSE
            [] ch = "." ->
                 /\ DOMAIN alphabet # {}
                 /\ FlatFrom(regex, Quantified(regex, i + 1, {}).next, alphabet)
            [] OTHER -> FlatFrom(regex, Quantified(regex, i + 1, {}).next, alphabet)

Flat(regex, alphabet) == regex # <<>> /\ FlatFrom(regex, 1, alphabet)

\* the positions of the quantifiers of an expression
QuantifierAt(regex) == {i \in DOMAIN regex : regex[i] \in Quantifiers}

\* C21: a postfix quantifier applies to the atom just before it, a closed
\* group counting as one atom: for every expression of the grammar with flat
\* groups that has a quantifier, the StemGuesser is constructed and accepts
\* exactly the strings the expression means when X* is read as zero or more
\* X, X+ as one or more, X? as at most one, and nothing before X is repeated.
C21_QuantifierOnPrecedingAtom ==
  (GuesserConstructed /\ Flat(decl[1].regex, decl[1].alphabet)
     /\ QuantifierAt(decl[1].regex) # {}) =>
    /\ pc # "failed"
    /\ Language(slots[1].fst) = Meaning(decl[1].regex, 1, decl[1].alphabet)

\* the StemGuesser of '(CV)*C' has been constructed without an alphabet:
\* it accepts 'C' and 'CVC', and neither the empty string nor 'CV' nor 'CC'
C21_Witness ==
  /\ GuesserConstructed /\ pc # "failed"
  /\ decl[1].regex = <<"(", "C", "V", ")", "*", "C">>
  /\ decl[1].alphabet = NoAlphabet
  /\ {<<67>>, <<67, 86, 67>>} \subseteq Language(slots[1].fst)
  /\ {<<>>, <<67, 86>>, <<67, 67>>} \cap Language(slots[1].fst) = {}


\* the groups of an expression: the positions of its opening brackets
GroupAt(regex, open) == {i \in DOMAIN regex : regex[i] = open}

\* the strings one atom of the group opened at position i stands for
GroupAtoms(regex, i, alphabet) ==
  LET j == FirstAt(regex, i, IF regex[i] = "(" THEN ")" ELSE "]")
  IN [k \in 1..(j - i - 1) |-> CharLanguage(regex[i + k], alphabet)]

\* a flat expression that is groups side by side and nothing else
OnlyGroups(regex, alphabet) ==
  /\ Flat(regex, alphabet)
  /\ regex[1] \in {"(", "["}
  /\ \A i \in DOMAIN regex :
       /\ regex[i] \notin Quantifiers \cup {"."}
       /\ (regex[i] \in {")", "]"} /\ i < Len(regex)) => regex[i + 1] \in {"(", "["}

\* the languages of the groups of an expression of groups, left to right
GroupLanguages(regex, alphabet) ==
  LET opens == SortedSeq(GroupAt(regex, "(") \cup GroupAt(regex, "["))
  IN [g \in DOMAIN opens |->
        LET atoms == GroupAtoms(regex, opens[g], alphabet)
        IN IF regex[opens[g]] = "(" THEN CatAll(atoms) ELSE UNION Range(atoms)]

\* C22: inside '(' ')' the atoms are concatenated and inside '[' ']' they are
\* alternatives: a StemGuesser made of flat groups of plain characters, side
\* by side, is constructed and accepts exactly the strings that are, group by
\* group from left to right, one atom of a '[' ']' group (never none, never
\* two) or all the atoms of a '(' ')' group in order; an atom that is a key
\* of the alphabet stands for any one symbol of its class.
C22_GroupsConcatAndUnion ==
  (GuesserConstructed /\ OnlyGroups(decl[1].regex, decl[1].alphabet)) =>
    /\ pc # "failed"
    /\ Language(slots[1].fst) =
         CatAll(GroupLanguages(decl[1].regex, decl[1].alphabet))
    /\ (GroupAt(decl[1].regex, "[") # {}) => <<>> \notin Language(slots[1].fst)

\* the StemGuesser of '[CV](V)' has been constructed over the alphabet
\* C = [t, kw], V = [a]: it accepts 'ta', 'kwa' and 'aa' and nothing else
C22_Witness ==
  /\ GuesserConstructed /\ pc # "failed"
  /\ decl[1].regex = <<"[", "C", "V", "]", "(", "V", ")">>
  /\ decl[1].alphabet = NahuatlAlphabet
  /\ Language(slots[1].fst) = {<<116, 97>>, <<107, 119, 97>>, <<97, 97>>}


\* C23: Terminal applied several times to one vertex. In the automaton as
\* built, the final weight of the vertex that ends a rule of a compiled
\* regular slot is the least of the weights the rule's continuation list
\* gives to Terminal, whatever the order in which the list gives them.
C23_TerminalWeightsMin ==
  (pc = "rmepsilon" /\ ncalls = 1 /\ RegularSlots) =>
    \A k \in cset : slots[k].name \in DOMAIN start_states =>
      \A i \in DOMAIN slots[k].rules :
        LET rule == slots[k].rules[i]
            s == slots[k].final_states[i]
        IN (i \in DOMAIN slots[k].final_states /\ None \in ContNames(rule)) =>
             /\ s \in DOMAIN fst.final
             /\ \A w \in ContWeights(rule, None) : fst.final[s] <= w


\* the first traversal of a call has returned and the second has not begun
EndOfPassOne == pc = "dfs" /\ pass = 1 /\ Len(stack) = 1 /\ Top.i > Len(Top.nbors)

\* the arcs that leave vertex v, in the order they were added
ArcsLeaving(f, v) == SortedSeq({a \in DOMAIN f.arcs : f.arcs[a].src = v})

\* the walk from vertex v along the arcs of a chain to the vertex that has
\* no arc: that vertex and the input symbols read on the way
RECURSIVE ChainFrom(_, _, _)
ChainFrom(f, v, read) ==
  LET out == ArcsLeaving(f, v)
  IN IF out = <<>> THEN [end |-> v, read |-> read]
     ELSE ChainFrom(f, f.arcs[out[1]].nextstate,
                    IF f.arcs[out[1]].ilabel = Epsilon THEN read
                    ELSE Append(read, f.arcs[out[1]].ilabel))

\* the chain that begins with the i-th arc leaving the entry vertex e
ChainOf(f, e, i) ==
  LET first == f.arcs[ArcsLeaving(f, e)[i]]
  IN ChainFrom(f, first.nextstate,
               IF first.ilabel = Epsilon THEN <<>> ELSE <<first.ilabel>>)

\* C24: at the end of pass 1 of any compile call, every reachable regular
\* slot has one recorded final vertex per rule, in rule order, the i-th being
\* the end of the chain built in this call for rule i, reached from the
\* slot's entry vertex by reading the rule's lower symbols; every reachable
\* StemGuesser has one recorded final vertex per accepting vertex of its
\* acceptor, the copy of that vertex.
C24_OneFinalVertexPerRule ==
  EndOfPassOne =>
    \A k \in cset : slots[k].name \in ReachableSlots =>
      LET slot == slots[k]
          e == start_states[slot.name]
      IN /\ slot.name \in DOMAIN start_states
         /\ IF slot.kind = "StemGuesser"
            THEN /\ Len(slot.final_states) = Cardinality(DOMAIN slot.fst.final)
                 /\ Range(slot.final_states) =
                      {IF q = 0 THEN e ELSE e + q : q \in DOMAIN slot.fst.final}
            ELSE /\ Len(slot.final_states) = Len(slot.rules)
                 /\ Len(ArcsLeaving(fst, e)) = Len(slot.rules)
                 /\ \A i \in DOMAIN slot.rules :
                      /\ ChainOf(fst, e, i).end = slot.final_states[i]
                      /\ ChainOf(fst, e, i).read = Lower(slot.rules[i])


\* a rule with both sides empty
EmptyRule(rule) == Upper(rule) = <<>> /\ Lower(rule) = <<>>

\* the arcs of f that enter vertex s
ArcsEntering(f, s) == {a \in DOMAIN f.arcs : f.arcs[a].nextstate = s}

StructuralErrors == {"FST malformed", "FstIndexError", "KeyError"}

\* C26: for a set of freshly constructed slots with a starting slot,
\* distinct names and every continuation name present, the automaton under
\* construction is structurally valid at every step of the two passes and
\* when fst.verify() is reached: every arc leaves and enters an allocated
\* vertex, every final vertex is allocated, the start vertex is set from the
\* first visit on, in pass 2 every name a visited slot continues to has an
\* entry vertex from pass 1; and the call raises neither 'FST malformed' nor
\* an index or key error.
C26_StructurallyValid ==
  (ncalls = 1 /\ NamesPresent /\ StartingSlots # {}
     /\ Cardinality({slots[k].name : k \in cset}) = Cardinality(cset)) =>
    /\ err \notin StructuralErrors
    /\ (pc \in {"dfs", "rmepsilon"}) =>
         /\ \A a \in DOMAIN fst.arcs :
              ValidStateId(fst, fst.arcs[a].src) /\ ValidStateId(fst, fst.arcs[a].nextstate)
         /\ \A q \in DOMAIN fst.final : ValidStateId(fst, q)
         /\ \A n \in DOMAIN start_states : ValidStateId(fst, start_states[n])
         /\ ("start" \in DOMAIN start_states) =>
              ValidStateId(fst, fst.start) /\ fst.start = start_states["start"]
         /\ (pass = 2 \/ pc = "rmepsilon") =>
              /\ ReachableSlots \subseteq DOMAIN start_states
              /\ \A k \in cset : slots[k].name \in DOMAIN start_states =>
                   /\ Conts(slots[k]) \subseteq DOMAIN start_states
                   /\ \A i \in DOMAIN slots[k].final_states :
                        ValidStateId(fst, slots[k].final_states[i])
    /\ (pc = "rmepsilon") => Verify(fst)

\* three slots that continue to one another in a cycle have been wired and
\* verified: an arc goes back to a vertex allocated before its source
C26_Witness ==
  /\ pc = "rmepsilon" /\ ncalls = 1 /\ NamesPresent
  /\ DOMAIN start_states = {"start", "c1", "c2", "c3"}
  /\ \E a \in DOMAIN fst.arcs : fst.arcs[a].nextstate < fst.arcs[a].src
  /\ fst.final # <<>>


\* a step inside one run of the harness
HarnessStep == pc = "dfs" /\ pc' = "dfs" /\ pass' = pass

\* the vertices of the frames that are open, the caller's frame left out
OpenVertices == {stack[j].vertex : j \in 2..Len(stack)}

\* the vertices the harness can arrive at from 'start'
ReachableVertices == {"start"} \cup ReachableSlots

\* C27: one run of the DFS harness. A call on a vertex that is not in the
\* visited set is its visit: the vertex joins the set and its frame opens
\* above the frame of the vertex through which it was reached, which has
\* been visited and is not finished; a vertex has at most one open frame and
\* is not visited again in this run. A frame closes (finish) only when its
\* loop has handed over every neighbour and each of them has been visited,
\* and closing returns to the caller's loop. A call on a vertex that is in
\* the visited set (a self-loop or a back edge) is a revisit: it opens no
\* frame and changes neither the visited set nor the automaton. No vertex
\* that 'start' does not reach is visited; and when every name is present
\* the run ends with the reachable vertices visited, all frames closed.
C27_HarnessDiscipline ==
  /\ [][HarnessStep =>
          /\ visited \subseteq visited'
          /\ (Len(stack') > Len(stack)) =>
               /\ Vertex \notin visited /\ visited' = visited \cup {Vertex}
               /\ Len(stack') = Len(stack) + 1
               /\ SubSeq(stack', 1, Len(stack)) = stack
               /\ stack'[Len(stack')].vertex = Vertex /\ stack'[Len(stack')].i = 1
               /\ Len(stack) > 1 => Top.vertex \in visited
          /\ (Len(stack') = Len(stack) /\ stack' # stack) =>
               /\ Vertex \in visited /\ visited' = visited
               /\ stack' = [stack EXCEPT ![Len(stack)].i = @ + 1]
               /\ fst' = fst /\ slots' = slots /\ start_states' = start_states
          /\ (Len(stack') < Len(stack)) =>
               /\ Top.i > Len(Top.nbors)
               /\ Range(Top.nbors) \cup {Top.vertex} \subseteq visited
               /\ visited' = visited
               /\ Len(stack') = Len(stack) - 1
               /\ stack'[Len(stack')].i = stack[Len(stack')].i + 1]_vars
  /\ []((pc = "dfs") =>
          /\ OpenVertices \subseteq visited
          /\ Cardinality(OpenVertices) = Len(stack) - 1
          /\ visited \subseteq ReachableVertices
          /\ \A j \in 2..Len(stack) : \A n \in 1..(stack[j].i - 1) :
               stack[j].nbors[n] \in visited)
  /\ []((pc = "rmepsilon") => (visited = ReachableVertices /\ stack = <<>>))
  /\ ((pc = "dfs" /\ pass = 1 /\ NamesPresent)
        ~> (EndOfPassOne /\ visited = ReachableVertices))

\* a frame has handed over a neighbour that is itself open below it or is
\* the frame's own vertex: that call was a revisit, and the run goes on
C27_Witness ==
  /\ pc = "dfs" /\ Len(stack) > 1 /\ Top.i > 1
  /\ Top.nbors[Top.i - 1] \in OpenVertices
  /\ visited = {"start", "c1", "c2", "c3"}


\* the weight that no path has: the zero of the tropical semiring, above
\* every weight of the model
SemiringZero == MaxWeight + 1

\* the arcs that leave the virtual start vertex are one epsilon arc of
\* weight w per starting slot, to that slot's entry vertex, and the vertex
\* is not final
RootWiredWith(w) ==
  LET root == start_states["start"]
      out == {a \in DOMAIN fst.arcs : fst.arcs[a].src = root}
  IN /\ Cardinality(out) = Cardinality(StartingSlots)
     /\ {fst.arcs[a] : a \in out} =
          {Arc(root, Epsilon, Epsilon, w, start_states[slots[k].name]) : k \in StartingSlots}
     /\ \A k \in cset \ StartingSlots : slots[k].name \in DOMAIN start_states =>
          \A a \in out : fst.arcs[a].nextstate # start_states[slots[k].name]
     /\ root \notin DOMAIN fst.final

\* C28 as stated: in the automaton as built the virtual start vertex has
\* exactly one epsilon arc per starting slot, to that slot's entry vertex,
\* with the weight 0-bar of the semiring (the weight of no path), none to a
\* slot that is not a starting slot, no other arc, and it is not accepting.
C28_RootArcsZeroBar ==
  (pc = "rmepsilon" /\ ncalls = 1) => RootWiredWith(SemiringZero)

\* C28: in the automaton as built the virtual start vertex has exactly one
\* epsilon arc per starting slot, to that slot's entry vertex, with weight
\* 0.0 (the one of the semiring, a free transition), none to a slot that is
\* not a starting slot, no other arc, and it is not accepting.
C28_RootArcsFree ==
  (pc = "rmepsilon" /\ ncalls = 1) => RootWiredWith(0)

\* a set with two starting slots and a third slot that the two reach has
\* been wired: two arcs leave the root
C28_Witness ==
  /\ pc = "rmepsilon" /\ ncalls = 1
  /\ Cardinality(StartingSlots) = 2
  /\ DOMAIN start_states = {"start", "c1", "c2", "c3"}
  /\ Cardinality({a \in DOMAIN fst.arcs : fst.arcs[a].src = start_states["start"]}) = 2


\* the brackets opened and not closed before position i, innermost last
OpenAt(regex, i) == Cancel(Brackets(SubSeq(regex, 1, i - 1)))

\* the position of the last opening bracket before position i, 0 if none
LastOpen(regex, i) ==
  LET opens == {j \in 1..(i - 1) : regex[j] \in {"(", "["}}
  IN IF opens = {} THEN 0 ELSE CHOOSE j \in opens : \A k \in opens : k <= j

\* no group has been closed between the last opening bracket and position i
InnermostUntouched(regex, i) ==
  \A j \in (LastOpen(regex, i) + 1)..(i - 1) : regex[j] \notin {")", "]"}

\* the turn of the scan at position i folds the character into the frame of
\* the innermost open group as a literal: no exception, no new frame, the
\* frame stays open, and it accepts the characters written since its bracket,
\* every one as it is written, in sequence for '(' and as alternatives for '['
FoldedAt(regex, i, alphabet) ==
  LET before == ScanBefore(ScanStart, regex, 1, i, alphabet)
      turn == ScanChar(before, regex, i, alphabet)
      o == LastOpen(regex, i)
      atoms == [k \in 1..(i - o) |-> CharLanguage(regex[o + k], alphabet)]
      top == turn.fst_stack[Len(turn.fst_stack)]
  IN /\ turn.err = ""
     /\ turn.stack = before.stack
     /\ Len(turn.fst_stack) = Len(before.fst_stack)
     /\ top.kind = (IF regex[o] = "(" THEN "scope" ELSE "union")
     /\ Language(top.fst) = (IF regex[o] = "(" THEN CatAll(atoms) ELSE UNION Range(atoms))

\* the positions of an expression at which '.', '?', '*' or '+' stands while
\* a group is open, and which the scan reaches without an exception
OperatorInOpenGroup(regex, alphabet) ==
  {i \in DOMAIN regex :
     /\ regex[i] \in Quantifiers \cup {"."}
     /\ OpenAt(regex, i) # <<>>
     /\ ScanBefore(ScanStart, regex, 1, i, alphabet).err = ""}

NamedStart == {k \in cset : slots[k].name = "start" /\ slots[k].start}

\* the labels of the rules of the slots named 'start'
ReservedLabels ==
  UNION {UNION {Range(Upper(slots[k].rules[i])) \cup Range(Lower(slots[k].rules[i])) :
                  i \in DOMAIN slots[k].rules} : k \in NamedStart}

\* C30: the reserved name is not checked. When a slot named 'start' with
\* start=True is compiled (every continuation name present), the call
\* raises nothing and returns an automaton; the slot is never materialized:
\* no vertex is recorded for its rules, no arc carries a symbol of its rules,
\* the name's entry vertex is the root itself, which is the vertex of both
\* passes' single visit of 'start'; the root has an epsilon arc of weight 0.0
\* to itself; and no word accepted by the returned automaton reads or writes
\* a symbol of the slot's rules, nor is the empty word accepted by way of its
\* empty terminal rule.
C30_ReservedNameCollides ==
  (NamedStart # {} /\ ncalls = 1 /\ NamesPresent) =>
    /\ err = ""
    /\ \A k \in NamedStart : slots[k].final_states = <<>>
    /\ (pc \in {"dfs", "rmepsilon"}) =>
         /\ \A a \in DOMAIN fst.arcs :
              {fst.arcs[a].ilabel, fst.arcs[a].olabel} \cap ReservedLabels = {}
         /\ ("start" \in DOMAIN start_states) => start_states["start"] = fst.start
    /\ (pc = "rmepsilon") =>
         /\ Cardinality({a \in DOMAIN fst.arcs :
                           fst.arcs[a] = Arc(fst.start, Epsilon, Epsilon, 0, fst.start)}) = 1
         /\ fst.start \notin DOMAIN fst.final
    /\ FirstCallOver =>
         /\ results[1].ok
         /\ \A p \in Pairs(results[1].fst) :
              (Range(p[1]) \cup Range(p[2])) \cap ReservedLabels = {}
         /\ (\A k \in StartingSlots \ NamedStart : \A i \in DOMAIN slots[k].rules :
               ~EmptyRule(slots[k].rules[i])) =>
              <<(<<>>), (<<>>)>> \notin Pairs(results[1].fst)

\* a slot named 'start' with a terminal rule, a starting slot c1 that
\* continues to the name 'start', and c2 have been compiled: the call has
\* returned an automaton that goes round through the root
C30_Witness ==
  /\ FirstCallOver /\ NamedStart # {} /\ NamesPresent /\ results[1].ok
  /\ Len(slots) = 3 /\ slots[2].start /\ "start" \in Conts(slots[2])
  /\ {<<<<98>>, <<97>>>>, <<<<98, 98>>, <<97, 97>>>>} \subseteq Pairs(results[1].fst)

=============================================================================
